---- MODULE Spec2Model ----
(***************************************************************************)
(* Slot availability and booking lifecycle of the sports-venue booking     *)
(* server (BookingService, SlotService) over its relational store.         *)
(*                                                                         *)
(* Every request is a process that runs one service method.  A method is   *)
(* cut at its awaits on the store: each store call (a find, an update, a   *)
(* $transaction) is one atomic step, and the synchronous code after it     *)
(* belongs to the same step.  Requests interleave between steps.           *)
(*                                                                         *)
(* Time is counted in minutes.  A stored slot holds a calendar day (date)  *)
(* and two wall-clock strings (startTime, endTime), "HH:MM" or, with the   *)
(* hour written in one digit, "H:MM"; a string is kept by its minutes      *)
(* since midnight and whether the hour is padded.  Money is kept in cents; *)
(* prices and refunds are computed as the service computes them, on IEEE   *)
(* 754 doubles.  The server's time zone is taken to be UTC.                *)
(***************************************************************************)
EXTENDS Integers, Sequences, FiniteSets, TLC

VARIABLES
  venues,         \* rows of table "venues"
  slots,          \* rows of table "slots"
  nextSlotId,     \* the number of the id the next inserted slot gets
  bookings,       \* rows of table "bookings"
  nextBookingId,  \* the id the next inserted booking gets
  now,            \* the wall clock, in minutes
  pc,             \* per request: the step it is at
  op,             \* per request: the method called and its arguments
  loc,            \* per request: the method's local variables
  response,       \* the response the latest step sent, if it sent one
  reviews,        \* rows of table "reviews"
  nextReviewId,   \* the number of the id the next inserted review gets
  rivalWon        \* per request (history): a createBooking racing with this
                  \* one on the same slot has already committed

vars ==
  <<venues, slots, nextSlotId, bookings, nextBookingId, now, pc, op, loc,
    response, reviews, nextReviewId, rivalWon>>

----------------------------------------------------------------------------
(* Bounds of the model *)

NumReqs == 2
MaxBookings == 2
MaxTicks == 1
MaxNewSlots == 2
MaxBulkSlots == 7
MaxReviews == 2

Reqs == 1 .. NumReqs
BookingIds == 1 .. MaxBookings

MinutesPerHour == 60
CentsPerUnit == 100
MinutesPerDay == 24 * 60
\* a step of the clock: a day and a half
TickMinutes == 36 * 60
\* the clock starts on day 1 at 04:00
StartNow == MinutesPerDay + 4 * 60

----------------------------------------------------------------------------
(* Enumerations of the schema *)

SlotStatus == {"AVAILABLE", "BOOKED", "BLOCKED"}
BookingStatus == {"PENDING", "CONFIRMED", "CANCELLED", "COMPLETED"}
PaymentStatus == {"PENDING", "PAID", "REFUNDED", "FAILED"}
ActiveStatuses == {"PENDING", "CONFIRMED"}

\* rows of table "users"; "gone" holds a valid token but has no row
UserRows == {"u1", "u2", "admin"}
TokenHolders == UserRows \cup {"gone"}
RoleOf(u) == IF u = "admin" THEN "ADMIN" ELSE "USER"

\* the venues seeded: v1, at 40.00 per hour
Venues == {[id |-> "v1", pricePerHour |-> 4000]}
VenueById(id) == CHOOSE v \in venues : v.id = id

\* slot ids requests name: a stored slot and an id that is not stored
AnySlotId == {"s1", "s9"}

Null == <<>>
Some(x) == <<x>>

----------------------------------------------------------------------------
(* JavaScript values *)

\* a Date: a time value, or Invalid Date (time value NaN)
InvalidDate == [valid |-> FALSE, t |-> 0]
DateAt(t) == [valid |-> TRUE, t |-> t]

\* strings: an ISO date-time, or a wall-clock time written "HH:MM" (padded)
\* or "H:MM" (an hour under 10 in one digit)
IsoString(t) == [fmt |-> "ISO", t |-> t]
HHMM(m) == [fmt |-> "HH:MM", min |-> m, padded |-> TRUE]
HMM(m) == [fmt |-> "HH:MM", min |-> m, padded |-> m >= 10 * 60]

\* hours * 60 + minutes after str.split(':').map(Number)
SplitMinutes(str) == str.min

\* the place of a wall-clock string in the order of < on strings, which
\* compares character by character with ':' above every digit: "H:MM" comes
\* after every "HH:MM" whose first digit is at most H ("9:00" > "10:00")
StringRank(str) ==
  IF str.padded
  THEN str.min * 100
  ELSE (((str.min \div 60) * 10 + 9) * 60 + 59) * 100 + 1 + (str.min % 60)

StringLess(a, b) == StringRank(a) < StringRank(b)
StringLessEq(a, b) == StringRank(a) =< StringRank(b)

\* date.toTimeString().slice(0, 5) of a Date at minute t
ToTimeString(t) == HHMM(t % (24 * 60))

\* new Date(string): an ISO date-time parses to its instant; "HH:MM" alone is
\* no date string and gives Invalid Date
NewDate(str) == IF str.fmt = "ISO" THEN DateAt(str.t) ELSE InvalidDate

\* a < b on two Dates: false as soon as one of them is NaN
DateLess(a, b) == a.valid /\ b.valid /\ a.t < b.t

\* Number: an IEEE 754 double of value sign * m * 2^e.  The significand m is
\* a natural number written in limbs of LimbBits bits, lowest limb first, so
\* that no intermediate value leaves the range of the integers at hand.
LimbBits == 13
LimbBase == 8192
SignificandBits == 53

RECURSIVE Limbs(_)
Limbs(n) ==
  IF n < LimbBase THEN <<n>> ELSE <<n % LimbBase>> \o Limbs(n \div LimbBase)

RECURSIVE Pow2(_)
Pow2(k) == IF k = 0 THEN 1 ELSE 2 * Pow2(k - 1)

\* the bits of a limb sequence, lowest first
BitsOf(a) ==
  [i \in 1 .. LimbBits * Len(a) |->
     (a[((i - 1) \div LimbBits) + 1] \div Pow2((i - 1) % LimbBits)) % 2]

Bit(bits, i) == IF i \in DOMAIN bits THEN bits[i] ELSE 0

\* the position of the highest set bit at or below i, 0 when there is none
RECURSIVE TopBit(_, _)
TopBit(bits, i) ==
  IF i = 0 THEN 0 ELSE IF bits[i] = 1 THEN i ELSE TopBit(bits, i - 1)

\* the number written by bits lo .. hi
RECURSIVE BitsValue(_, _, _)
BitsValue(bits, lo, hi) ==
  IF lo > hi THEN 0 ELSE Bit(bits, lo) + 2 * BitsValue(bits, lo + 1, hi)

\* the limbs of the number written by bits lo .. hi
LimbsOfBits(bits, lo, hi) ==
  [k \in 1 .. ((hi - lo) \div LimbBits) + 1 |->
     LET from == lo + LimbBits * (k - 1)
         upto == IF from + LimbBits - 1 < hi THEN from + LimbBits - 1 ELSE hi
     IN  BitsValue(bits, from, upto)]

RECURSIVE BigSucc(_)
BigSucc(a) ==
  IF a = <<>> THEN <<1>>
  ELSE IF Head(a) + 1 < LimbBase THEN <<Head(a) + 1>> \o Tail(a)
  ELSE <<0>> \o BigSucc(Tail(a))

RECURSIVE ColumnSum(_, _, _, _)
ColumnSum(a, b, k, i) ==
  IF i > Len(a) THEN 0
  ELSE (IF k + 1 - i \in DOMAIN b THEN a[i] * b[k + 1 - i] ELSE 0)
       + ColumnSum(a, b, k, i + 1)

RECURSIVE Propagate(_, _)
Propagate(columns, carry) ==
  IF columns = <<>>
  THEN IF carry = 0 THEN <<>> ELSE Limbs(carry)
  ELSE LET v == Head(columns) + carry
       IN  <<v % LimbBase>> \o Propagate(Tail(columns), v \div LimbBase)

\* the exact product of two naturals
BigMul(a, b) ==
  Propagate([k \in 1 .. Len(a) + Len(b) - 1 |-> ColumnSum(a, b, k, 1)], 0)

\* the quotient and the remainder of a natural by a small divisor
RECURSIVE BigDivSmall(_, _)
BigDivSmall(a, d) ==
  IF a = <<>> THEN [q |-> <<>>, r |-> 0]
  ELSE LET high == BigDivSmall(Tail(a), d)
           cur == high.r * LimbBase + Head(a)
       IN  [q |-> <<cur \div d>> \o high.q, r |-> cur % d]

DoubleZero == [sign |-> 0, m |-> <<0>>, e |-> 0]

\* the double nearest to sign * x * 2^e, ties to the even significand
RoundToDouble(sign, x, e) ==
  LET bits == BitsOf(x)
      top == TopBit(bits, Len(bits))
      s == top - SignificandBits
  IN  IF s <= 0 THEN [sign |-> sign, m |-> x, e |-> e]
      ELSE LET q == LimbsOfBits(bits, s + 1, top)
               sticky == \E i \in 1 .. s - 1 : bits[i] = 1
               up == bits[s] = 1 /\ (sticky \/ bits[s + 1] = 1)
           IN  [sign |-> sign, m |-> IF up THEN BigSucc(q) ELSE q, e |-> e + s]

\* an integer as a double
DoubleOfInt(n) ==
  IF n = 0 THEN DoubleZero
  ELSE [sign |-> IF n < 0 THEN 0 - 1 ELSE 1,
        m |-> Limbs(IF n < 0 THEN 0 - n ELSE n), e |-> 0]

\* x / d on a double and a small integer d > 0: the double nearest to the
\* quotient.  The quotient of m * 2^65 keeps more than 53 bits and the
\* remainder is kept as one more bit below them.
DoubleOverInt(x, d) ==
  IF x.sign = 0 THEN DoubleZero
  ELSE LET division == BigDivSmall(<<0, 0, 0, 0, 0>> \o x.m, d)
           doubled == BigMul(division.q, <<2>>)
           q == [doubled EXCEPT ![1] = @ + (IF division.r # 0 THEN 1 ELSE 0)]
       IN  RoundToDouble(x.sign, q, x.e - (5 * LimbBits + 1))

\* n / d on two integers, d > 0
DoubleOfRatio(n, d) == DoubleOverInt(DoubleOfInt(n), d)

\* x * y on two doubles
DoubleTimes(x, y) ==
  IF y.sign = 0 \/ x.sign = 0 THEN DoubleZero
  ELSE RoundToDouble(x.sign * y.sign, BigMul(x.m, y.m), x.e + y.e)

\* Math.round(x) on a double: the nearest integer, a half towards +Infinity
MathRoundDouble(x) ==
  LET bits == BitsOf(x.m)
      top == TopBit(bits, Len(bits))
      s == 0 - x.e
      whole == BitsValue(bits, s + 1, top)
      half == Bit(bits, s) = 1
      below == \E i \in 1 .. s - 1 : Bit(bits, i) = 1
  IN  IF x.sign = 0 THEN 0
      ELSE IF x.e >= 0 THEN x.sign * BitsValue(bits, 1, top) * Pow2(x.e)
      ELSE IF x.sign > 0 THEN whole + (IF half THEN 1 ELSE 0)
      ELSE 0 - (whole + (IF half /\ below THEN 1 ELSE 0))

\* status.toLowerCase()
ToLowerCase(s) ==
  CASE s = "AVAILABLE" -> "available"
    [] s = "BOOKED" -> "booked"
    [] s = "BLOCKED" -> "blocked"

----------------------------------------------------------------------------
(* Store queries *)

HasSlot(S, id) == \E s \in S : s.id = id
SlotOf(S, id) == CHOOSE s \in S : s.id = id
HasBooking(B, id) == \E b \in B : b.id = id
BookingOf(B, id) == CHOOSE b \in B : b.id = id

\* a faulty variant of ActiveBookings that counts PENDING bookings alone; C5
\* tells it from the code's
ActiveBookingsPendingOnly(B, slotId) ==
  {b \in B : b.slotId = slotId /\ b.status = "PENDING"}

\* bookings: { where: { status: { in: [PENDING, CONFIRMED] } } }
ActiveBookings(B, slotId) ==
  {b \in B : b.slotId = slotId /\ b.status \in ActiveStatuses}

\* the instant a slot starts: its date at its startTime
SlotStartInstant(s) == s.date * MinutesPerDay + SplitMinutes(s.startTime)

----------------------------------------------------------------------------
(* Responses *)

\* a success; only checkAvailability's body is kept (value), the body of the
\* other methods being the row they wrote
Ok == [kind |-> "OK", message |-> "", value |-> Null]
OkWith(v) == [kind |-> "OK", message |-> "", value |-> Some(v)]
\* AppError(statusCode, code, message), by the kind of its status code
AppError(kind, message) == [kind |-> kind, message |-> message, value |-> Null]
\* Prisma P2025 through errorHandler: 404 NOT_FOUND
RecordNotFound == AppError("NotFound", "Record not found")
\* any other store error through errorHandler: 500 INTERNAL_ERROR
InternalError == AppError("Internal", "An error occurred")

----------------------------------------------------------------------------
(* BookingService: pure parts *)

\* calculatePrice(startTime, endTime, pricePerHour) on "HH:MM" strings.  The
\* price per hour comes in cents and stands for the double nearest to that
\* many hundredths; the result is the integer Math.round yields, the price in
\* cents, which the final division by 100 turns into the double nearest to it.
calculatePrice(startTime, endTime, pricePerHour) ==
  LET startTotalMinutes == SplitMinutes(startTime)
      endTotalMinutes == SplitMinutes(endTime)
      durationMinutes == endTotalMinutes - startTotalMinutes
      durationHours == DoubleOfRatio(durationMinutes, MinutesPerHour)
      rate == DoubleOfRatio(pricePerHour, CentsPerUnit)
  IN  MathRoundDouble(DoubleTimes(DoubleTimes(durationHours, rate),
                                  DoubleOfInt(CentsPerUnit)))

\* the percentage calculateRefund picks for a slot start and the clock
RefundPercentage(slotStartTime, clock) ==
  LET valid == slotStartTime.valid
      minutesUntilStart == slotStartTime.t - clock
  IN  IF valid /\ minutesUntilStart > 24 * MinutesPerHour THEN 100
      ELSE IF valid /\ minutesUntilStart >= 12 * MinutesPerHour THEN 50
      ELSE 0

\* calculateRefund(slotStartTime, totalPrice) at clock reading `clock`; the
\* total price comes in cents, as does the amount
calculateRefund(slotStartTime, totalPrice, clock) ==
  LET percentage == RefundPercentage(slotStartTime, clock)
      price == DoubleOfRatio(totalPrice, CentsPerUnit)
      share == DoubleOverInt(DoubleTimes(price, DoubleOfInt(percentage)), 100)
  IN  [eligible |-> percentage > 0,
       percentage |-> percentage,
       amount |-> MathRoundDouble(DoubleTimes(share, DoubleOfInt(CentsPerUnit)))]

\* the slot as checkSlotAvailability reports it
SlotSummary(slot) ==
  [id |-> slot.id, startTime |-> slot.startTime, endTime |-> slot.endTime,
   status |-> slot.status]

\* a faulty variant of checkSlotAvailability that does not look at the slot's
\* status; C6 tells it from the code's
checkSlotAvailabilityNoStatus(S, B, clock, slotId) ==
  IF ~HasSlot(S, slotId)
  THEN [available |-> FALSE, reason |-> "Slot not found", slot |-> Null]
  ELSE LET slot == SlotOf(S, slotId)
           reason == IF ActiveBookings(B, slotId) # {}
                     THEN "Slot already has an active booking"
                     ELSE ""
       IN  [available |-> reason = "", reason |-> reason,
            slot |-> Some(SlotSummary(slot))]

\* checkSlotAvailability(slotId) against store (S, B) at clock reading `clock`
checkSlotAvailability(S, B, clock, slotId) ==
  IF ~HasSlot(S, slotId)
  THEN [available |-> FALSE, reason |-> "Slot not found", slot |-> Null]
  ELSE LET slot == SlotOf(S, slotId)
           slotStartDate == NewDate(slot.startTime)
           reason ==
             IF slot.status # "AVAILABLE"
             THEN "Slot is " \o ToLowerCase(slot.status)
             ELSE IF ActiveBookings(B, slotId) # {}
             THEN "Slot already has an active booking"
             ELSE IF DateLess(slotStartDate, DateAt(clock))
             THEN "Cannot book a past slot"
             ELSE ""
       IN  [available |-> reason = "", reason |-> reason,
            slot |-> Some(SlotSummary(slot))]

\* the row createBooking inserts
NewBooking(id, userId, slotId, totalPrice) ==
  [id |-> id, userId |-> userId, slotId |-> slotId, totalPrice |-> totalPrice,
   status |-> "PENDING", paymentStatus |-> "PENDING", refundAmount |-> Null]

\* tx.slot.update({ where: { id }, data: { status } })
SetSlotStatus(S, slotId, status) ==
  {IF s.id = slotId THEN [s EXCEPT !.status = status] ELSE s : s \in S}

\* a faulty variant of createBookingTx without the transaction: the slot update
\* stays when the insert fails; C3 tells it from the code's
createBookingTxNoRollback(S, B, id, userId, slotId, totalPrice) ==
  IF ~HasSlot(S, slotId)
  THEN [slots |-> S, bookings |-> B, res |-> RecordNotFound]
  ELSE IF userId \notin UserRows
  THEN [slots |-> SetSlotStatus(S, slotId, "BOOKED"), bookings |-> B,
        res |-> InternalError]
  ELSE [slots |-> SetSlotStatus(S, slotId, "BOOKED"),
        bookings |-> B \cup {NewBooking(id, userId, slotId, totalPrice)},
        res |-> Ok]

\* createBooking's $transaction: slot.update then booking.create; an error in
\* either rolls both back.  The update fails on a missing slot (P2025), the
\* insert on a userId with no row in "users" (foreign key).
createBookingTx(S, B, id, userId, slotId, totalPrice) ==
  IF ~HasSlot(S, slotId)
  THEN [slots |-> S, bookings |-> B, res |-> RecordNotFound]
  ELSE IF userId \notin UserRows
  THEN [slots |-> S, bookings |-> B, res |-> InternalError]
  ELSE [slots |-> SetSlotStatus(S, slotId, "BOOKED"),
        bookings |-> B \cup {NewBooking(id, userId, slotId, totalPrice)},
        res |-> Ok]

\* a faulty variant of cancelBookingChecks that looks at the status before the
\* owner; C9 tells it from the code's
cancelBookingChecksStatusFirst(B, id, userId, isAdmin) ==
  IF ~HasBooking(B, id)
  THEN AppError("NotFound", "Booking not found")
  ELSE LET booking == BookingOf(B, id)
       IN  IF booking.status = "CANCELLED"
           THEN AppError("BadRequest", "Booking is already cancelled")
           ELSE IF booking.status = "COMPLETED"
           THEN AppError("BadRequest", "Cannot cancel a completed booking")
           ELSE IF ~isAdmin /\ booking.userId # userId
           THEN AppError("Forbidden", "You can only cancel your own bookings")
           ELSE Ok

\* a faulty variant of cancelBookingChecks that lets a CANCELLED booking
\* through; C12 tells it from the code's
cancelBookingChecksCancelledPasses(B, id, userId, isAdmin) ==
  IF ~HasBooking(B, id)
  THEN AppError("NotFound", "Booking not found")
  ELSE LET booking == BookingOf(B, id)
       IN  IF ~isAdmin /\ booking.userId # userId
           THEN AppError("Forbidden", "You can only cancel your own bookings")
           ELSE IF booking.status = "COMPLETED"
           THEN AppError("BadRequest", "Cannot cancel a completed booking")
           ELSE Ok

\* cancelBooking's checks on the booking it read, in the order of the code:
\* the first that fails gives the error, Ok when all pass
cancelBookingChecks(B, id, userId, isAdmin) ==
  IF ~HasBooking(B, id)
  THEN AppError("NotFound", "Booking not found")
  ELSE LET booking == BookingOf(B, id)
       IN  IF ~isAdmin /\ booking.userId # userId
           THEN AppError("Forbidden", "You can only cancel your own bookings")
           ELSE IF booking.status = "CANCELLED"
           THEN AppError("BadRequest", "Booking is already cancelled")
           ELSE IF booking.status = "COMPLETED"
           THEN AppError("BadRequest", "Cannot cancel a completed booking")
           ELSE Ok

\* a faulty variant of cancelBookingTx that marks every cancelled booking
\* REFUNDED; C39 tells it from the code's
cancelBookingTxAlwaysRefunded(S, B, booking, refundInfo) ==
  IF ~HasSlot(S, booking.slotId) \/ ~HasBooking(B, booking.id)
  THEN [slots |-> S, bookings |-> B, res |-> RecordNotFound]
  ELSE LET old == BookingOf(B, booking.id)
           new == [old EXCEPT
                     !.status = "CANCELLED",
                     !.refundAmount = Some(refundInfo.amount),
                     !.paymentStatus = "REFUNDED"]
       IN  [slots |-> SetSlotStatus(S, booking.slotId, "AVAILABLE"),
            bookings |-> (B \ {old}) \cup {new},
            res |-> Ok]

\* a faulty variant of cancelBookingTx that cancels the booking and leaves the
\* slot as it is; C37 tells it from the code's
cancelBookingTxKeepsSlot(S, B, booking, refundInfo) ==
  IF ~HasSlot(S, booking.slotId) \/ ~HasBooking(B, booking.id)
  THEN [slots |-> S, bookings |-> B, res |-> RecordNotFound]
  ELSE LET old == BookingOf(B, booking.id)
           new == [old EXCEPT
                     !.status = "CANCELLED",
                     !.refundAmount = Some(refundInfo.amount),
                     !.paymentStatus = IF refundInfo.amount > 0
                                       THEN "REFUNDED"
                                       ELSE booking.paymentStatus]
       IN  [slots |-> S, bookings |-> (B \ {old}) \cup {new}, res |-> Ok]

\* cancelBooking's $transaction: slot.update then booking.update; an error in
\* either (P2025 on a missing row) rolls both back.  `booking` holds the
\* fields of the row as cancelBooking read it before the transaction.
cancelBookingTx(S, B, booking, refundInfo) ==
  IF ~HasSlot(S, booking.slotId) \/ ~HasBooking(B, booking.id)
  THEN [slots |-> S, bookings |-> B, res |-> RecordNotFound]
  ELSE LET old == BookingOf(B, booking.id)
           new == [old EXCEPT
                     !.status = "CANCELLED",
                     !.refundAmount = Some(refundInfo.amount),
                     !.paymentStatus = IF refundInfo.amount > 0
                                       THEN "REFUNDED"
                                       ELSE booking.paymentStatus]
       IN  [slots |-> SetSlotStatus(S, booking.slotId, "AVAILABLE"),
            bookings |-> (B \ {old}) \cup {new},
            res |-> Ok]

updateBookingStatusWriteResetsPrice(B, id, status) ==
  IF ~HasBooking(B, id)
  THEN [bookings |-> B, res |-> RecordNotFound]
  ELSE LET old == BookingOf(B, id)
           new == [old EXCEPT !.status = status, !.totalPrice = 0]
       IN  [bookings |-> (B \ {old}) \cup {new}, res |-> Ok]

updateBookingStatusWriteSetsRefund(B, id, status) ==
  IF ~HasBooking(B, id)
  THEN [bookings |-> B, res |-> RecordNotFound]
  ELSE LET old == BookingOf(B, id)
           new == [old EXCEPT !.status = status, !.refundAmount = Some(0)]
       IN  [bookings |-> (B \ {old}) \cup {new}, res |-> Ok]

\* a faulty variant of updateBookingStatusWrite that writes the status alone;
\* C40 tells it from the code's
updateBookingStatusWriteStatusOnly(B, id, status) ==
  IF ~HasBooking(B, id)
  THEN [bookings |-> B, res |-> RecordNotFound]
  ELSE LET old == BookingOf(B, id)
           new == [old EXCEPT !.status = status]
       IN  [bookings |-> (B \ {old}) \cup {new}, res |-> Ok]

\* a faulty variant of updateBookingStatusWrite that marks the booking paid
\* whatever the target status; C29 tells it from the code's
updateBookingStatusWriteAlwaysPaid(B, id, status) ==
  IF ~HasBooking(B, id)
  THEN [bookings |-> B, res |-> RecordNotFound]
  ELSE LET old == BookingOf(B, id)
           new == [old EXCEPT !.status = status, !.paymentStatus = "PAID"]
       IN  [bookings |-> (B \ {old}) \cup {new}, res |-> Ok]

\* updateBookingStatus's prisma.booking.update
updateBookingStatusWrite(B, id, status) ==
  IF ~HasBooking(B, id)
  THEN [bookings |-> B, res |-> RecordNotFound]
  ELSE LET old == BookingOf(B, id)
           new == [old EXCEPT
                     !.status = status,
                     !.paymentStatus = IF status = "CONFIRMED"
                                       THEN "PAID"
                                       ELSE old.paymentStatus]
       IN  [bookings |-> (B \ {old}) \cup {new}, res |-> Ok]

----------------------------------------------------------------------------
(* SlotService: pure parts.  A Date is split as the service splits it: its  *)
(* calendar day (the DATE column) and toTimeString().slice(0, 5).           *)

DayOf(t) == t \div MinutesPerDay

\* hasSlotOverlap(venueId, startTime, endTime, excludeSlotId) against rows S;
\* excludeSlotId is Null or Some(id)
hasSlotOverlap(S, venueId, startTime, endTime, excludeSlotId) ==
  LET date == DayOf(startTime)
      startTimeStr == ToTimeString(startTime)
      endTimeStr == ToTimeString(endTime)
      slotsOnDate == {s \in S : /\ s.venueId = venueId
                                /\ s.date = date
                                /\ excludeSlotId # Some(s.id)}
  IN  \E slot \in slotsOnDate :
        \/ /\ StringLess(startTimeStr, slot.endTime)
           /\ StringLess(slot.startTime, endTimeStr)
        \/ /\ StringLessEq(startTimeStr, slot.startTime)
           /\ StringLessEq(slot.endTime, endTimeStr)

\* the id given to the n-th slot inserted after seeding
NewSlotId(n) == "n" \o ToString(n)

\* createSlot's prisma.slot.create data: the day of startTime as the date, the
\* two times as toTimeString().slice(0, 5), the status given or AVAILABLE
createSlotRow(id, data) ==
  [id |-> id, venueId |-> data.venueId,
   date |-> DayOf(NewDate(IsoString(data.startTime)).t),
   startTime |-> ToTimeString(NewDate(IsoString(data.startTime)).t),
   endTime |-> ToTimeString(NewDate(IsoString(data.endTime)).t),
   status |-> IF data.status # Null THEN data.status[1] ELSE "AVAILABLE"]

\* createBulkSlots: slotsToCreate, one candidate per date and per time
\* template, dates outermost; the two times are kept as they were sent
slotsToCreate(data) ==
  LET nt == Len(data.timeSlots)
  IN  [k \in 1 .. Len(data.dates) * nt |->
         LET dateStr == data.dates[((k - 1) \div nt) + 1]
             timeSlot == data.timeSlots[((k - 1) % nt) + 1]
         IN  [venueId |-> data.venueId, date |-> dateStr,
              startTime |-> timeSlot.startTime, endTime |-> timeSlot.endTime,
              status |-> IF data.status # Null
                         THEN data.status[1]
                         ELSE "AVAILABLE"]]

\* createBulkSlots: hasSlotOverlap for one candidate, on the Dates built by
\* setHours from its date and its two times
candidateOverlaps(S, slotData) ==
  LET startDate == slotData.date * MinutesPerDay + SplitMinutes(slotData.startTime)
      endDate == slotData.date * MinutesPerDay + SplitMinutes(slotData.endTime)
  IN  hasSlotOverlap(S, slotData.venueId, startDate, endDate, Null)

\* createBulkSlots: the row prisma.slot.create inserts for a candidate
candidateRow(id, slotData) ==
  [id |-> id, venueId |-> slotData.venueId, date |-> slotData.date,
   startTime |-> slotData.startTime, endTime |-> slotData.endTime,
   status |-> slotData.status]

\* updateVenue's prisma.venue.update({ where: { id }, data })
updateVenueWrite(V, id, data) ==
  IF ~\E v \in V : v.id = id
  THEN [venues |-> V, res |-> RecordNotFound]
  ELSE [venues |-> {IF v.id = id /\ data.pricePerHour # Null
                    THEN [v EXCEPT !.pricePerHour = data.pricePerHour[1]]
                    ELSE v : v \in V},
        res |-> Ok]

\* updateSlot: the interval handed to checkSlotOverlap, from the patch and the
\* slot as updateSlot read it
PatchedInterval(slot, data) ==
  LET currentStartDate == slot.date * MinutesPerDay + SplitMinutes(slot.startTime)
      currentEndDate == slot.date * MinutesPerDay + SplitMinutes(slot.endTime)
  IN  [newStartTime |-> IF data.startTime # Null
                        THEN NewDate(IsoString(data.startTime[1])).t
                        ELSE currentStartDate,
       newEndTime |-> IF data.endTime # Null
                      THEN NewDate(IsoString(data.endTime[1])).t
                      ELSE currentEndDate]

\* updateSlot's prisma.slot.update with updateData built from the patch
updateSlotWrite(S, id, data) ==
  IF ~HasSlot(S, id)
  THEN [slots |-> S, res |-> RecordNotFound]
  ELSE LET old == SlotOf(S, id)
           a == IF data.startTime # Null
                THEN [old EXCEPT !.date = DayOf(data.startTime[1]),
                                 !.startTime = ToTimeString(data.startTime[1])]
                ELSE old
           b == IF data.endTime # Null
                THEN [a EXCEPT !.endTime = ToTimeString(data.endTime[1])]
                ELSE a
           new == IF data.status # Null
                  THEN [b EXCEPT !.status = data.status[1]]
                  ELSE b
       IN  [slots |-> (S \ {old}) \cup {new}, res |-> Ok]

\* deleteSlot's prisma.slot.delete; bookings_slotId_fkey is ON DELETE CASCADE
deleteSlotWrite(S, B, id) ==
  IF ~HasSlot(S, id)
  THEN [slots |-> S, bookings |-> B, res |-> RecordNotFound]
  ELSE [slots |-> {s \in S : s.id # id},
        bookings |-> {b \in B : b.slotId # id},
        res |-> Ok]

----------------------------------------------------------------------------
(* Requests *)

NoCall == [name |-> "none"]
NoLocals == [none |-> TRUE]
NoResponse == [name |-> "none", kind |-> "none", message |-> "", value |-> Null]

\* a request process is free to take a new call; of the free processes, which
\* are interchangeable, the first takes it
Free(p) ==
  /\ pc[p] = "idle"
  /\ \A q \in Reqs : q < p => pc[q] # "idle"

\* the call of p to method `name` ends and sends `r`
Finish(p, name, r) ==
  /\ pc' = [pc EXCEPT ![p] = "idle"]
  /\ op' = [op EXCEPT ![p] = NoCall]
  /\ loc' = [loc EXCEPT ![p] = NoLocals]
  /\ response' = [name |-> name, kind |-> r.kind, message |-> r.message,
                  value |-> r.value]

\* the call of p goes on to step `step`; `call` and `locals` hold the arguments
\* and local variables its remaining steps read
Continue(p, call, step, locals) ==
  /\ pc' = [pc EXCEPT ![p] = step]
  /\ op' = [op EXCEPT ![p] = call]
  /\ loc' = [loc EXCEPT ![p] = locals]
  /\ response' = NoResponse

\* createBooking calls between their availability check and their transaction
InFlightCreates == {q \in Reqs : pc[q] \in {"cb_find", "cb_tx"}}

\* GET /api/bookings/check/:slotId
CheckAvailability(p, slotId) ==
  /\ Free(p)
  /\ Finish(p, "checkAvailability",
            OkWith(checkSlotAvailability(slots, bookings, now, slotId)))
  /\ UNCHANGED <<reviews, nextReviewId, slots, bookings, nextBookingId, venues,
                 nextSlotId, now,
                 rivalWon>>

\* createBooking, first await: checkSlotAvailability and the throw on
\* an unavailable slot
CreateBookingCheck(p, slotId, userId) ==
  /\ Free(p)
  /\ nextBookingId + Cardinality(InFlightCreates) <= MaxBookings
  /\ LET call == [name |-> "createBooking", slotId |-> slotId, userId |-> userId]
         availability == checkSlotAvailability(slots, bookings, now, slotId)
     IN  IF ~availability.available
         THEN Finish(p, call.name, AppError("Conflict", availability.reason))
         ELSE Continue(p, call, "cb_find", NoLocals)
  /\ UNCHANGED <<reviews, nextReviewId, slots, bookings, nextBookingId, venues,
                 nextSlotId, now,
                 rivalWon>>

\* createBooking, second await: the slot with its venue, and the price
CreateBookingFind(p) ==
  /\ pc[p] = "cb_find"
  /\ IF ~HasSlot(slots, op[p].slotId)
     THEN /\ Finish(p, op[p].name, AppError("NotFound", "Slot not found"))
          /\ rivalWon' = [rivalWon EXCEPT ![p] = FALSE]
     ELSE LET slot == SlotOf(slots, op[p].slotId)
              venue == VenueById(slot.venueId)
          IN  /\ Continue(p, op[p], "cb_tx",
                   [totalPrice |-> calculatePrice(slot.startTime, slot.endTime,
                                                  venue.pricePerHour)])
              /\ UNCHANGED rivalWon
  /\ UNCHANGED <<reviews, nextReviewId, slots, bookings, nextBookingId, venues,
                 nextSlotId, now>>

\* createBooking, third await: the transaction
CreateBookingTx(p) ==
  /\ pc[p] = "cb_tx"
  /\ LET tx == createBookingTx(slots, bookings, nextBookingId, op[p].userId,
                               op[p].slotId, loc[p].totalPrice)
         committed == tx.res.kind = "OK"
     IN  /\ slots' = tx.slots
         /\ bookings' = tx.bookings
         /\ nextBookingId' = IF committed THEN nextBookingId + 1 ELSE nextBookingId
         /\ Finish(p, op[p].name, tx.res)
         /\ rivalWon' = [q \in Reqs |->
              IF q = p THEN FALSE
              ELSE IF /\ committed
                      /\ q \in InFlightCreates
                      /\ op[q].slotId = op[p].slotId
              THEN TRUE
              ELSE rivalWon[q]]
  /\ UNCHANGED <<reviews, nextReviewId, now, venues, nextSlotId>>

\* cancelBooking, first await: the booking with its slot, the checks and the
\* refund computed from the clock
CancelBookingRead(p, id, userId) ==
  /\ Free(p)
  /\ LET call == [name |-> "cancelBooking", id |-> id]
         isAdmin == RoleOf(userId) = "ADMIN"
         checked == cancelBookingChecks(bookings, id, userId, isAdmin)
     IN  IF checked # Ok
         THEN Finish(p, call.name, checked)
         ELSE LET booking == BookingOf(bookings, id)
                  slot == SlotOf(slots, booking.slotId)
              IN  Continue(p, call, "cn_tx",
                    [booking |-> [id |-> booking.id,
                                  slotId |-> booking.slotId,
                                  paymentStatus |-> booking.paymentStatus],
                     refundInfo |-> calculateRefund(
                        NewDate(slot.startTime),
                        booking.totalPrice, now)])
  /\ UNCHANGED <<reviews, nextReviewId, slots, bookings, nextBookingId, venues,
                 nextSlotId, now,
                 rivalWon>>

\* cancelBooking, second await: the transaction
CancelBookingTx(p) ==
  /\ pc[p] = "cn_tx"
  /\ LET tx == cancelBookingTx(slots, bookings, loc[p].booking, loc[p].refundInfo)
     IN  /\ slots' = tx.slots
         /\ bookings' = tx.bookings
         /\ Finish(p, op[p].name, tx.res)
  /\ UNCHANGED <<reviews, nextReviewId, nextBookingId, venues, nextSlotId, now,
                 rivalWon>>

\* PUT /api/bookings/:id/status: authorize(ADMIN), then updateBookingStatus's
\* first await, the booking
UpdateBookingStatusRead(p, id, status, userId) ==
  /\ Free(p)
  /\ LET call == [name |-> "updateBookingStatus", id |-> id, status |-> status]
     IN  IF RoleOf(userId) # "ADMIN"
         THEN Finish(p, call.name, AppError("Forbidden", "Insufficient permissions"))
         ELSE IF ~HasBooking(bookings, id)
         THEN Finish(p, call.name, AppError("NotFound", "Booking not found"))
         ELSE Continue(p, call, "ub_write", NoLocals)
  /\ UNCHANGED <<reviews, nextReviewId, slots, bookings, nextBookingId, venues,
                 nextSlotId, now,
                 rivalWon>>

\* updateBookingStatus, second await: the update
UpdateBookingStatusWrite(p) ==
  /\ pc[p] = "ub_write"
  /\ LET w == updateBookingStatusWrite(bookings, op[p].id, op[p].status)
     IN  /\ bookings' = w.bookings
         /\ Finish(p, op[p].name, w.res)
  /\ UNCHANGED <<reviews, nextReviewId, slots, nextBookingId, venues,
                 nextSlotId, now, rivalWon>>

\* a faulty variant of UpdateSlotRead without the check against a time change
\* of a booked slot; C21 tells it from the code's
UpdateSlotReadNoBookedCheck(p, id, data, userId) ==
  /\ Free(p)
  /\ LET call == [name |-> "updateSlot", id |-> id, data |-> data]
         timeChange == data.startTime # Null \/ data.endTime # Null
     IN  IF RoleOf(userId) # "ADMIN"
         THEN Finish(p, call.name, AppError("Forbidden", "Insufficient permissions"))
         ELSE IF ~HasSlot(slots, id)
         THEN Finish(p, call.name, AppError("NotFound", "Slot not found"))
         ELSE IF timeChange
         THEN Continue(p, call, "us_overlap", [slot |-> SlotOf(slots, id)])
         ELSE Continue(p, call, "us_write", NoLocals)
  /\ UNCHANGED <<reviews, nextReviewId, slots, bookings, nextBookingId, venues,
                 nextSlotId, now,
                 rivalWon>>

\* PUT /api/slots/:id: authorize(ADMIN), then updateSlot's first awaits: the
\* slot with its active bookings, the user, and the check against a
\* time change of a booked slot
UpdateSlotRead(p, id, data, userId) ==
  /\ Free(p)
  /\ LET call == [name |-> "updateSlot", id |-> id, data |-> data]
         timeChange == data.startTime # Null \/ data.endTime # Null
     IN  IF RoleOf(userId) # "ADMIN"
         THEN Finish(p, call.name, AppError("Forbidden", "Insufficient permissions"))
         ELSE IF ~HasSlot(slots, id)
         THEN Finish(p, call.name, AppError("NotFound", "Slot not found"))
         ELSE IF ActiveBookings(bookings, id) # {} /\ timeChange
         THEN Finish(p, call.name, AppError("BadRequest",
                       "Cannot modify time of a booked slot"))
         ELSE IF timeChange
         THEN Continue(p, call, "us_overlap", [slot |-> SlotOf(slots, id)])
         ELSE Continue(p, call, "us_write", NoLocals)
  /\ UNCHANGED <<reviews, nextReviewId, slots, bookings, nextBookingId, venues,
                 nextSlotId, now,
                 rivalWon>>

\* updateSlot, on a time change: checkSlotOverlap excluding the slot itself
UpdateSlotOverlap(p) ==
  /\ pc[p] = "us_overlap"
  /\ LET i == PatchedInterval(loc[p].slot, op[p].data)
     IN  IF hasSlotOverlap(slots, loc[p].slot.venueId, i.newStartTime,
                           i.newEndTime, Some(op[p].id))
         THEN Finish(p, op[p].name, AppError("Conflict",
                       "Time slot overlaps with existing slot"))
         ELSE Continue(p, op[p], "us_write", NoLocals)
  /\ UNCHANGED <<reviews, nextReviewId, slots, bookings, nextBookingId, venues,
                 nextSlotId, now,
                 rivalWon>>

\* updateSlot, last await: the update
UpdateSlotWrite(p) ==
  /\ pc[p] = "us_write"
  /\ LET w == updateSlotWrite(slots, op[p].id, op[p].data)
     IN  /\ slots' = w.slots
         /\ Finish(p, op[p].name, w.res)
  /\ UNCHANGED <<reviews, nextReviewId, bookings, nextBookingId, venues,
                 nextSlotId, now, rivalWon>>

\* a faulty variant of DeleteSlotRead without the check against deleting a
\* booked slot; C22 tells it from the code's
DeleteSlotReadNoBookedCheck(p, id, userId) ==
  /\ Free(p)
  /\ LET call == [name |-> "deleteSlot", id |-> id]
     IN  IF RoleOf(userId) # "ADMIN"
         THEN Finish(p, call.name, AppError("Forbidden", "Insufficient permissions"))
         ELSE IF ~HasSlot(slots, id)
         THEN Finish(p, call.name, AppError("NotFound", "Slot not found"))
         ELSE Continue(p, call, "ds_write", NoLocals)
  /\ UNCHANGED <<reviews, nextReviewId, slots, bookings, nextBookingId, venues,
                 nextSlotId, now,
                 rivalWon>>

\* DELETE /api/slots/:id: authorize(ADMIN), then deleteSlot's first awaits: the
\* slot with its active bookings, the user, and the check against deleting a
\* booked slot
DeleteSlotRead(p, id, userId) ==
  /\ Free(p)
  /\ LET call == [name |-> "deleteSlot", id |-> id]
     IN  IF RoleOf(userId) # "ADMIN"
         THEN Finish(p, call.name, AppError("Forbidden", "Insufficient permissions"))
         ELSE IF ~HasSlot(slots, id)
         THEN Finish(p, call.name, AppError("NotFound", "Slot not found"))
         ELSE IF ActiveBookings(bookings, id) # {}
         THEN Finish(p, call.name, AppError("BadRequest",
                       "Cannot delete a booked slot"))
         ELSE Continue(p, call, "ds_write", NoLocals)
  /\ UNCHANGED <<reviews, nextReviewId, slots, bookings, nextBookingId, venues,
                 nextSlotId, now,
                 rivalWon>>

\* deleteSlot, last await: the delete
DeleteSlotWrite(p) ==
  /\ pc[p] = "ds_write"
  /\ LET w == deleteSlotWrite(slots, bookings, op[p].id)
     IN  /\ slots' = w.slots
         /\ bookings' = w.bookings
         /\ Finish(p, op[p].name, w.res)
  /\ UNCHANGED <<reviews, nextReviewId, nextBookingId, venues, nextSlotId, now,
                 rivalWon>>

\* POST /api/slots: authorize(ADMIN), then createSlot's venue, user and
\* overlap checks
CreateSlotCheck(p, data, userId) ==
  /\ Free(p)
  /\ nextSlotId + Cardinality({q \in Reqs : pc[q] = "cs_write"}) <= MaxNewSlots
  /\ LET call == [name |-> "createSlot", data |-> data]
     IN  IF RoleOf(userId) # "ADMIN"
         THEN Finish(p, call.name, AppError("Forbidden", "Insufficient permissions"))
         ELSE IF ~\E v \in venues : v.id = data.venueId
         THEN Finish(p, call.name, AppError("NotFound", "Venue not found"))
         ELSE IF hasSlotOverlap(slots, data.venueId,
                                NewDate(IsoString(data.startTime)).t,
                                NewDate(IsoString(data.endTime)).t, Null)
         THEN Finish(p, call.name, AppError("Conflict",
                       "Time slot overlaps with existing slot"))
         ELSE Continue(p, call, "cs_write", NoLocals)
  /\ UNCHANGED <<reviews, nextReviewId, slots, bookings, nextBookingId, venues,
                 nextSlotId, now,
                 rivalWon>>

\* createSlot, last await: the insert
CreateSlotWrite(p) ==
  /\ pc[p] = "cs_write"
  /\ slots' = slots \cup {createSlotRow(NewSlotId(nextSlotId), op[p].data)}
  /\ nextSlotId' = nextSlotId + 1
  /\ Finish(p, op[p].name, Ok)
  /\ UNCHANGED <<reviews, nextReviewId, bookings, nextBookingId, venues, now,
                 rivalWon>>

\* the candidates of the createBulkSlots calls in flight that have not yet
\* been skipped or inserted
RECURSIVE PendingCandidates(_)
PendingCandidates(Q) ==
  IF Q = {} THEN 0
  ELSE LET q == CHOOSE r \in Q : TRUE
           own == IF pc[q] = "bk_run"
                  THEN Cardinality({k \in DOMAIN loc[q].state :
                                      loc[q].state[k] # "done"})
                  ELSE 0
       IN  own + PendingCandidates(Q \ {q})

\* POST /api/slots/bulk: authorize(ADMIN), then createBulkSlots's venue and
\* user checks and the list of candidates; every candidate then runs its
\* own overlap query and insert.  atStart is not a local of the method: it
\* keeps the slots stored when the request arrived.
CreateBulkSlotsStart(p, data, userId) ==
  /\ Free(p)
  /\ nextSlotId + PendingCandidates(Reqs)
       + Len(data.dates) * Len(data.timeSlots) <= MaxBulkSlots + 1
  /\ LET call == [name |-> "createBulkSlots", data |-> data]
         candidates == slotsToCreate(data)
     IN  IF RoleOf(userId) # "ADMIN"
         THEN Finish(p, call.name, AppError("Forbidden", "Insufficient permissions"))
         ELSE IF ~\E v \in venues : v.id = data.venueId
         THEN Finish(p, call.name, AppError("NotFound", "Venue not found"))
         ELSE Continue(p, call, "bk_run",
                [slotsToCreate |-> candidates,
                 atStart |-> slots,
                 state |-> [k \in DOMAIN candidates |-> "query"],
                 results |-> [k \in DOMAIN candidates |-> Null]])
  /\ UNCHANGED <<reviews, nextReviewId, slots, bookings, nextBookingId, venues,
                 nextSlotId, now,
                 rivalWon>>

\* createBulkSlots, candidate k: its hasSlotOverlap query
CreateBulkSlotsQuery(p, k) ==
  /\ pc[p] = "bk_run"
  /\ k \in DOMAIN loc[p].state
  /\ loc[p].state[k] = "query"
  /\ LET hasOverlap == candidateOverlaps(slots, loc[p].slotsToCreate[k])
     IN  Continue(p, op[p], "bk_run",
           [loc[p] EXCEPT !.state[k] = IF hasOverlap THEN "done" ELSE "create"])
  /\ UNCHANGED <<reviews, nextReviewId, slots, bookings, nextBookingId, venues,
                 nextSlotId, now,
                 rivalWon>>

\* createBulkSlots, candidate k: its insert
CreateBulkSlotsCreate(p, k) ==
  /\ pc[p] = "bk_run"
  /\ k \in DOMAIN loc[p].state
  /\ loc[p].state[k] = "create"
  /\ LET row == candidateRow(NewSlotId(nextSlotId), loc[p].slotsToCreate[k])
     IN  /\ slots' = slots \cup {row}
         /\ Continue(p, op[p], "bk_run",
              [loc[p] EXCEPT !.state[k] = "done", !.results[k] = Some(row)])
  /\ nextSlotId' = nextSlotId + 1
  /\ UNCHANGED <<reviews, nextReviewId, bookings, nextBookingId, venues, now,
                 rivalWon>>

\* createBulkSlots, after Promise.all: the rows created and their number
CreateBulkSlotsReturn(p) ==
  /\ pc[p] = "bk_run"
  /\ \A k \in DOMAIN loc[p].state : loc[p].state[k] = "done"
  /\ LET createdSlots == SelectSeq(loc[p].results, LAMBDA r : r # Null)
     IN  Finish(p, op[p].name,
                OkWith([created |-> Len(createdSlots),
                        slots |-> [k \in DOMAIN createdSlots |->
                                     createdSlots[k][1]]]))
  /\ UNCHANGED <<reviews, nextReviewId, slots, bookings, nextBookingId, venues,
                 nextSlotId, now,
                 rivalWon>>

\* PUT /api/venues/:id: updateVenue's first await, the venue
UpdateVenueRead(p, id, data) ==
  /\ Free(p)
  /\ LET call == [name |-> "updateVenue", id |-> id, data |-> data]
     IN  IF ~\E v \in venues : v.id = id
         THEN Finish(p, call.name, AppError("NotFound", "Venue not found"))
         ELSE Continue(p, call, "uv_write", NoLocals)
  /\ UNCHANGED <<reviews, nextReviewId, slots, bookings, nextBookingId, venues,
                 nextSlotId, now,
                 rivalWon>>

\* updateVenue, second await: the update
UpdateVenueWrite(p) ==
  /\ pc[p] = "uv_write"
  /\ LET w == updateVenueWrite(venues, op[p].id, op[p].data)
     IN  /\ venues' = w.venues
         /\ Finish(p, op[p].name, w.res)
  /\ UNCHANGED <<reviews, nextReviewId, slots, bookings, nextBookingId,
                 nextSlotId, now, rivalWon>>

\* hasSlotOverlap(venueId, startTime, endTime) called on its own; the response
\* keeps the arguments with the answer
HasSlotOverlap(p, venueId, startTime, endTime) ==
  /\ Free(p)
  /\ Finish(p, "hasSlotOverlap",
            OkWith([venueId |-> venueId, startTime |-> startTime,
                    endTime |-> endTime,
                    hasOverlap |-> hasSlotOverlap(slots, venueId, startTime,
                                                 endTime, Null)]))
  /\ UNCHANGED <<reviews, nextReviewId, slots, bookings, nextBookingId, venues,
                 nextSlotId, now,
                 rivalWon>>

\* calculatePrice(startTime, endTime, pricePerHour) called on its own; the
\* response keeps the arguments with the price
CalculatePrice(p, startTime, endTime, pricePerHour) ==
  /\ Free(p)
  /\ Finish(p, "calculatePrice",
            OkWith([startTime |-> startTime, endTime |-> endTime,
                    pricePerHour |-> pricePerHour,
                    price |-> calculatePrice(startTime, endTime, pricePerHour)]))
  /\ UNCHANGED <<reviews, nextReviewId, slots, bookings, nextBookingId, venues,
                 nextSlotId, now,
                 rivalWon>>

\* calculateRefund(slotStartTime, totalPrice) called on its own; the response
\* keeps the arguments and the clock reading with the RefundInfo
CalculateRefund(p, slotStartTime, totalPrice) ==
  /\ Free(p)
  /\ Finish(p, "calculateRefund",
            OkWith([slotStartTime |-> slotStartTime, totalPrice |-> totalPrice,
                    at |-> now,
                    refund |-> calculateRefund(slotStartTime, totalPrice, now)]))
  /\ UNCHANGED <<reviews, nextReviewId, slots, bookings, nextBookingId, venues,
                 nextSlotId, now,
                 rivalWon>>

\* the wall clock advances
Tick ==
  /\ now + TickMinutes <= StartNow + MaxTicks * TickMinutes
  /\ now' = now + TickMinutes
  /\ response' = NoResponse
  /\ UNCHANGED <<reviews, nextReviewId, slots, bookings, nextBookingId, venues,
                 nextSlotId, pc, op,
                 loc, rivalWon>>

----------------------------------------------------------------------------
(* Inputs *)

Day2 == 2 * MinutesPerDay

\* patches of PUT /api/slots/:id that pass UpdateSlotSchema: with both times
\* given, the end is after the start
UpdateSlotPatches ==
  {d \in [startTime : {Null, Some(Day2 + 13 * 60)},
          endTime : {Null, Some(Day2 + 14 * 60)},
          status : {Null} \cup {Some(s) : s \in SlotStatus}] :
     (d.startTime # Null /\ d.endTime # Null) => d.endTime[1] > d.startTime[1]}

\* the patches that change the status alone
StatusPatches ==
  {d \in UpdateSlotPatches : d.startTime = Null /\ d.endTime = Null /\ d.status # Null}

----------------------------------------------------------------------------
(* The store after seeding.  Slot s1, on day 2 from 10:00 to 12:00, starts  *)
(* 30 hours after the clock's first reading and has started after its      *)
(* first step.  Slot s2 is a second slot of the venue, on the next day.    *)

InitSlots ==
  {[id |-> "s1", venueId |-> "v1", date |-> 2, startTime |-> HHMM(10 * 60),
    endTime |-> HHMM(12 * 60), status |-> "AVAILABLE"],
   [id |-> "s2", venueId |-> "v1", date |-> 3, startTime |-> HHMM(10 * 60),
    endTime |-> HHMM(12 * 60), status |-> "AVAILABLE"]}

Init ==
  /\ venues = Venues
  /\ slots = InitSlots
  /\ nextSlotId = 1
  /\ bookings = {}
  /\ nextBookingId = 1
  /\ now = StartNow
  /\ pc = [p \in Reqs |-> "idle"]
  /\ op = [p \in Reqs |-> NoCall]
  /\ loc = [p \in Reqs |-> NoLocals]
  /\ response = NoResponse
  /\ rivalWon = [p \in Reqs |-> FALSE]
  /\ reviews = {}
  /\ nextReviewId = 1

\* The booking lifecycle: requests of users (checkAvailability, createBooking,
\* cancelBooking) and of the admin (updateBookingStatus, updateSlot with a
\* status patch, deleteSlot) on slot s1, in every interleaving.
Next ==
  \/ \E p \in Reqs, slotId \in AnySlotId : CheckAvailability(p, slotId)
  \/ \E p \in Reqs, slotId \in AnySlotId, userId \in {"u1", "gone"} :
       CreateBookingCheck(p, slotId, userId)
  \/ \E p \in Reqs : CreateBookingFind(p)
  \/ \E p \in Reqs : CreateBookingTx(p)
  \/ \E p \in Reqs, id \in BookingIds, userId \in UserRows :
       CancelBookingRead(p, id, userId)
  \/ \E p \in Reqs : CancelBookingTx(p)
  \/ \E p \in Reqs, id \in BookingIds, status \in BookingStatus :
       UpdateBookingStatusRead(p, id, status, "admin")
  \/ \E p \in Reqs : UpdateBookingStatusWrite(p)
  \/ \E p \in Reqs, data \in StatusPatches : UpdateSlotRead(p, "s1", data, "admin")
  \/ \E p \in Reqs : UpdateSlotWrite(p)
  \/ \E p \in Reqs : DeleteSlotRead(p, "s1", "admin")
  \/ \E p \in Reqs : DeleteSlotWrite(p)

Spec == Init /\ [][Next]_vars

\* The users' requests while the clock advances past the start of slot s1.
TimedNext ==
  \/ \E p \in Reqs, slotId \in AnySlotId : CheckAvailability(p, slotId)
  \/ \E p \in Reqs, slotId \in AnySlotId, userId \in {"u1", "u2"} :
       CreateBookingCheck(p, slotId, userId)
  \/ \E p \in Reqs : CreateBookingFind(p)
  \/ \E p \in Reqs : CreateBookingTx(p)
  \/ \E p \in Reqs, id \in BookingIds, userId \in UserRows :
       CancelBookingRead(p, id, userId)
  \/ \E p \in Reqs : CancelBookingTx(p)
  \/ Tick

TimedSpec == Init /\ [][TimedNext]_vars

\* calculateRefund alone, on slot starts around the two thresholds and on
\* prices whose half is and is not a whole number of cents.
RefundClocks == {StartNow, StartNow + 45, StartNow + TickMinutes}
RefundOffsets ==
  {25 * 60, 24 * 60 + 1, 24 * 60, 24 * 60 - 1, 18 * 60, 12 * 60 + 1, 12 * 60,
   12 * 60 - 1, 0, 0 - 60}
RefundPrices == {0, 1, 3333, 8000, 8001}

RefundInit ==
  /\ venues = Venues
  /\ slots = InitSlots
  /\ nextSlotId = 1
  /\ bookings = {}
  /\ nextBookingId = 1
  /\ now \in RefundClocks
  /\ pc = [p \in Reqs |-> "idle"]
  /\ op = [p \in Reqs |-> NoCall]
  /\ loc = [p \in Reqs |-> NoLocals]
  /\ response = NoResponse
  /\ rivalWon = [p \in Reqs |-> FALSE]
  /\ reviews = {}
  /\ nextReviewId = 1

RefundNext ==
  \E p \in Reqs, offset \in RefundOffsets, totalPrice \in RefundPrices :
    CalculateRefund(p, DateAt(now + offset), totalPrice)

RefundSpec == RefundInit /\ [][RefundNext]_vars

\* calculatePrice alone, on slots of half an hour to eight hours and on prices
\* per hour of one cent to some hundred units.
PriceStarts == {9 * 60, 10 * 60}
PriceEnds == {10 * 60 + 30, 11 * 60, 11 * 60 + 30, 12 * 60, 17 * 60}
PriceRates ==
  {1, 29, 57, 100, 201, 333, 999, 1000, 1999, 2500, 3000, 3333, 4000, 12345}

PriceNext ==
  \E p \in Reqs, startTime \in PriceStarts, endTime \in PriceEnds,
     pricePerHour \in PriceRates :
    CalculatePrice(p, HHMM(startTime), HHMM(endTime), pricePerHour)

PriceSpec == Init /\ [][PriceNext]_vars

\* bodies of POST /api/slots that pass CreateSlotSchema: one hour on day 2,
\* inside slot s1, after it, and across the second
CreateSlotBodies ==
  {[venueId |-> "v1", startTime |-> Day2 + m, endTime |-> Day2 + m + 60,
    status |-> Null] : m \in {11 * 60, 13 * 60, 13 * 60 + 30}}

\* time templates of POST /api/slots/bulk that pass CreateBulkSlotsSchema
Template(startTime, endTime) == [startTime |-> startTime, endTime |-> endTime]
Morning == Template(HMM(9 * 60), HMM(11 * 60))
Midday == Template(HHMM(10 * 60 + 30), HHMM(11 * 60 + 30))
Afternoon == Template(HHMM(13 * 60), HHMM(14 * 60))
Evening == Template(HHMM(18 * 60), HHMM(19 * 60))
LateMorning == Template(HHMM(10 * 60), HHMM(10 * 60 + 30))

BulkBody(dates, timeSlots) ==
  [venueId |-> "v1", dates |-> dates, timeSlots |-> timeSlots, status |-> Null]

\* the patches that change a time and leave the status alone
TimePatches ==
  {d \in UpdateSlotPatches :
     (d.startTime # Null \/ d.endTime # Null) /\ d.status = Null}

\* The slot administration: createSlot, createBulkSlots and updateSlot with a
\* time patch, all on venue v1, in every interleaving.
SlotBulkBodies == {BulkBody(<<2>>, <<Afternoon, Midday>>)}

SlotNext ==
  \/ \E p \in Reqs, data \in CreateSlotBodies, userId \in {"admin", "u1"} :
       CreateSlotCheck(p, data, userId)
  \/ \E p \in Reqs : CreateSlotWrite(p)
  \/ \E p \in Reqs, data \in SlotBulkBodies :
       CreateBulkSlotsStart(p, data, "admin")
  \/ \E p \in Reqs, k \in 1 .. MaxBulkSlots : CreateBulkSlotsQuery(p, k)
  \/ \E p \in Reqs, k \in 1 .. MaxBulkSlots : CreateBulkSlotsCreate(p, k)
  \/ \E p \in Reqs : CreateBulkSlotsReturn(p)
  \/ \E p \in Reqs, data \in TimePatches :
       UpdateSlotRead(p, "s1", data, "admin")
  \/ \E p \in Reqs : UpdateSlotOverlap(p)
  \/ \E p \in Reqs : UpdateSlotWrite(p)

SlotSpec == Init /\ [][SlotNext]_vars

\* The admin's updateSlot and deleteSlot on slot s1 while a user books it, in
\* every interleaving.
RaceNext ==
  \/ \E p \in Reqs : CreateBookingCheck(p, "s1", "u1")
  \/ \E p \in Reqs : CreateBookingFind(p)
  \/ \E p \in Reqs : CreateBookingTx(p)
  \/ \E p \in Reqs, data \in UpdateSlotPatches :
       UpdateSlotRead(p, "s1", data, "admin")
  \/ \E p \in Reqs : UpdateSlotOverlap(p)
  \/ \E p \in Reqs : UpdateSlotWrite(p)
  \/ \E p \in Reqs : DeleteSlotRead(p, "s1", "admin")
  \/ \E p \in Reqs : DeleteSlotWrite(p)

RaceSpec == Init /\ [][RaceNext]_vars

\* hasSlotOverlap alone, on a store of one slot of venue v1 on day 2 and on a
\* candidate of the same day.  Both run from a start to a later end between
\* 9:00 and 12:00; the stored slot was inserted by createSlot, or by
\* createBulkSlots from a template that writes its hours as they are spoken.
OverlapTimes == {9 * 60, 9 * 60 + 30, 10 * 60, 10 * 60 + 30, 11 * 60, 12 * 60}
OverlapIntervals ==
  {i \in [startTime : OverlapTimes, endTime : OverlapTimes] :
     i.startTime < i.endTime}
OverlapRows ==
  {createSlotRow("s1", [venueId |-> "v1", startTime |-> Day2 + i.startTime,
                        endTime |-> Day2 + i.endTime, status |-> Null]) :
     i \in OverlapIntervals}
  \cup
  {candidateRow("s1", slotsToCreate(BulkBody(<<2>>,
                        <<Template(HMM(i.startTime), HMM(i.endTime))>>))[1]) :
     i \in OverlapIntervals}

OverlapInit ==
  /\ venues = Venues
  /\ slots \in {{row} : row \in OverlapRows}
  /\ nextSlotId = 1
  /\ bookings = {}
  /\ nextBookingId = 1
  /\ now = StartNow
  /\ pc = [p \in Reqs |-> "idle"]
  /\ op = [p \in Reqs |-> NoCall]
  /\ loc = [p \in Reqs |-> NoLocals]
  /\ response = NoResponse
  /\ rivalWon = [p \in Reqs |-> FALSE]
  /\ reviews = {}
  /\ nextReviewId = 1

OverlapNext ==
  \E p \in Reqs, i \in OverlapIntervals :
    HasSlotOverlap(p, "v1", Day2 + i.startTime, Day2 + i.endTime)

OverlapSpec == OverlapInit /\ [][OverlapNext]_vars

\* createBulkSlots alone: a batch of three templates over days 2 and 4, whose
\* morning template overlaps slot s1 on day 2, and a batch of one template on
\* day 4, in every interleaving of their candidates.
BulkBodies ==
  {BulkBody(<<2, 4>>, <<Morning, Afternoon, Evening>>),
   BulkBody(<<4>>, <<LateMorning>>)}

BulkNext ==
  \/ \E p \in Reqs, data \in BulkBodies, userId \in {"admin", "u1"} :
       CreateBulkSlotsStart(p, data, userId)
  \/ \E p \in Reqs, k \in 1 .. MaxBulkSlots : CreateBulkSlotsQuery(p, k)
  \/ \E p \in Reqs, k \in 1 .. MaxBulkSlots : CreateBulkSlotsCreate(p, k)
  \/ \E p \in Reqs : CreateBulkSlotsReturn(p)

BulkSpec == Init /\ [][BulkNext]_vars

\* bodies of PUT /api/venues/:id that pass updateVenueSchema: a new price per
\* hour, or none
VenuePatches == {[pricePerHour |-> Some(5000)], [pricePerHour |-> Null]}

\* the patches that move a slot to a new start and a new end
MovePatches == {d \in TimePatches : d.startTime # Null /\ d.endTime # Null}

\* A booking of slot s1 and what can follow it: the user's cancelBooking and
\* the admin's updateBookingStatus, updateSlot with a new time, and updateVenue
\* with a new price per hour, in every interleaving.
FrameNext ==
  \/ \E p \in Reqs : CreateBookingCheck(p, "s1", "u1")
  \/ \E p \in Reqs : CreateBookingFind(p)
  \/ \E p \in Reqs : CreateBookingTx(p)
  \/ \E p \in Reqs, id \in BookingIds : CancelBookingRead(p, id, "u1")
  \/ \E p \in Reqs : CancelBookingTx(p)
  \/ \E p \in Reqs, id \in BookingIds, status \in {"CANCELLED", "COMPLETED"} :
       UpdateBookingStatusRead(p, id, status, "admin")
  \/ \E p \in Reqs : UpdateBookingStatusWrite(p)
  \/ \E p \in Reqs, data \in MovePatches :
       UpdateSlotRead(p, "s1", data, "admin")
  \/ \E p \in Reqs : UpdateSlotOverlap(p)
  \/ \E p \in Reqs : UpdateSlotWrite(p)
  \/ \E p \in Reqs, data \in VenuePatches : UpdateVenueRead(p, "v1", data)
  \/ \E p \in Reqs : UpdateVenueWrite(p)

FrameSpec == Init /\ [][FrameNext]_vars

\* The admin's work on slot s1 and on its bookings (updateSlot with a new
\* time, deleteSlot, updateBookingStatus to every status) while a user books
\* the slot, in every interleaving.
AdminNext ==
  \/ \E p \in Reqs : CreateBookingCheck(p, "s1", "u1")
  \/ \E p \in Reqs : CreateBookingFind(p)
  \/ \E p \in Reqs : CreateBookingTx(p)
  \/ \E p \in Reqs, id \in BookingIds, status \in BookingStatus :
       UpdateBookingStatusRead(p, id, status, "admin")
  \/ \E p \in Reqs : UpdateBookingStatusWrite(p)
  \/ \E p \in Reqs, data \in TimePatches :
       UpdateSlotRead(p, "s1", data, "admin")
  \/ \E p \in Reqs : UpdateSlotOverlap(p)
  \/ \E p \in Reqs : UpdateSlotWrite(p)
  \/ \E p \in Reqs : DeleteSlotRead(p, "s1", "admin")
  \/ \E p \in Reqs : DeleteSlotWrite(p)

AdminSpec == Init /\ [][AdminNext]_vars

\* bodies of POST /api/slots that pass CreateSlotSchema: one hour on day 2
\* (before slot s1, inside it and after it) and on day 4, on venue v1 and on
\* a venue that does not exist, with and without a status
Day4 == 4 * MinutesPerDay
CreateBodies ==
  {[venueId |-> v, startTime |-> d + m, endTime |-> d + m + 60,
    status |-> st] :
     v \in {"v1", "v9"}, d \in {Day2, Day4}, m \in {9 * 60, 11 * 60, 13 * 60},
     st \in {Null, Some("BLOCKED")}}

\* createSlot by an admin and by a user, on a venue whose slots were made by
\* createSlot and by createBulkSlots (the 9:00 to 11:00 template on day 4).
CreateNext ==
  \/ \E p \in Reqs, data \in CreateBodies, userId \in {"admin", "u1"} :
       CreateSlotCheck(p, data, userId)
  \/ \E p \in Reqs : CreateSlotWrite(p)
  \/ \E p \in Reqs : CreateBulkSlotsStart(p, BulkBody(<<4>>, <<Morning>>), "admin")
  \/ \E p \in Reqs, k \in 1 .. MaxBulkSlots : CreateBulkSlotsQuery(p, k)
  \/ \E p \in Reqs, k \in 1 .. MaxBulkSlots : CreateBulkSlotsCreate(p, k)
  \/ \E p \in Reqs : CreateBulkSlotsReturn(p)

CreateSpec == Init /\ [][CreateNext]_vars

\* bodies of PUT /api/slots/:id that pass updateSlotSchema and move a slot
\* into day 4: a new start, a new end, or both
Day4Patches ==
  {d \in [startTime : {Null, Some(Day4 + 9 * 60 + 30)},
          endTime : {Null, Some(Day4 + 10 * 60 + 30)},
          status : {Null}] :
     d.startTime # Null \/ d.endTime # Null}

\* updateSlot moving slots s1 and s2 into day 4, on which createBulkSlots
\* stores the 9:00 to 11:00 and the 13:00 to 14:00 templates.
MoveNext ==
  \/ \E p \in Reqs, id \in {"s1", "s2"}, data \in Day4Patches :
       UpdateSlotRead(p, id, data, "admin")
  \/ \E p \in Reqs : UpdateSlotOverlap(p)
  \/ \E p \in Reqs : UpdateSlotWrite(p)
  \/ \E p \in Reqs, timeSlots \in {<<Morning>>, <<Afternoon>>} :
       CreateBulkSlotsStart(p, BulkBody(<<4>>, timeSlots), "admin")
  \/ \E p \in Reqs, k \in 1 .. MaxBulkSlots : CreateBulkSlotsQuery(p, k)
  \/ \E p \in Reqs, k \in 1 .. MaxBulkSlots : CreateBulkSlotsCreate(p, k)
  \/ \E p \in Reqs : CreateBulkSlotsReturn(p)

MoveSpec == Init /\ [][MoveNext]_vars

\* bodies of POST /api/slots/bulk whose candidates collide with each other on
\* day 4: two templates that overlap from 11:00 to 11:30, and one date twice
Noon == Template(HHMM(11 * 60), HHMM(12 * 60))
BatchBodies ==
  {BulkBody(<<4>>, <<Midday, Noon>>),
   BulkBody(<<4, 4>>, <<Afternoon>>)}

\* createBulkSlots alone, on batches whose own candidates overlap.
BatchNext ==
  \/ \E p \in Reqs, data \in BatchBodies : CreateBulkSlotsStart(p, data, "admin")
  \/ \E p \in Reqs, k \in 1 .. MaxBulkSlots : CreateBulkSlotsQuery(p, k)
  \/ \E p \in Reqs, k \in 1 .. MaxBulkSlots : CreateBulkSlotsCreate(p, k)
  \/ \E p \in Reqs : CreateBulkSlotsReturn(p)

BatchSpec == Init /\ [][BatchNext]_vars

----------------------------------------------------------------------------
(* ReviewService.  A review row keeps its author, its venue, its rating and *)
(* its comment; the pair (userId, venueId) carries a unique index.          *)

ReviewIds == {"r" \o ToString(n) : n \in 1 .. MaxReviews}
NewReviewId(n) == "r" \o ToString(n)
HasReview(R, id) == \E r \in R : r.id = id
ReviewOf(R, id) == CHOOSE r \in R : r.id = id

\* Prisma P2002 through errorHandler: 409 DUPLICATE_ENTRY
UniqueViolation == AppError("Conflict", "A record with this data already exists")

\* createReview's prisma.booking.findFirst: the user's COMPLETED bookings on
\* a slot of the venue
completedBookings(B, S, userId, venueId) ==
  {b \in B : /\ b.userId = userId
             /\ b.status = "COMPLETED"
             /\ \E s \in S : s.id = b.slotId /\ s.venueId = venueId}

\* a faulty variant of reviewCreate on a table without the unique index on
\* (userId, venueId); C27 tells it from the code's
reviewCreateNoUniqueIndex(R, id, userId, data) ==
  [reviews |-> R \cup {[id |-> id, userId |-> userId, venueId |-> data.venueId,
                        rating |-> data.rating, comment |-> data.comment]},
   res |-> Ok]

\* createReview's prisma.review.create on table "reviews"
reviewCreate(R, id, userId, data) ==
  IF \E r \in R : r.userId = userId /\ r.venueId = data.venueId
  THEN [reviews |-> R, res |-> UniqueViolation]
  ELSE [reviews |-> R \cup {[id |-> id, userId |-> userId,
                             venueId |-> data.venueId,
                             rating |-> data.rating, comment |-> data.comment]},
        res |-> Ok]

\* updateReview's prisma.review.update: the fields of the patch that are
\* defined replace the row's
reviewUpdate(R, id, data) ==
  IF ~HasReview(R, id)
  THEN [reviews |-> R, res |-> RecordNotFound]
  ELSE LET old == ReviewOf(R, id)
           new == [old EXCEPT
                     !.rating = IF data.rating # Null
                                THEN data.rating[1] ELSE old.rating,
                     !.comment = IF data.comment # Null
                                 THEN data.comment ELSE old.comment]
       IN  [reviews |-> (R \ {old}) \cup {new}, res |-> Ok]

\* deleteReview's prisma.review.delete
reviewDelete(R, id) ==
  IF ~HasReview(R, id)
  THEN [reviews |-> R, res |-> RecordNotFound]
  ELSE [reviews |-> R \ {ReviewOf(R, id)}, res |-> Ok]

\* POST /api/reviews: authenticate, then createReview's first await, the venue
CreateReviewVenue(p, data, userId) ==
  /\ Free(p)
  /\ nextReviewId + Cardinality({q \in Reqs : pc[q] \in {"cr_find", "cr_booking",
                                                          "cr_create"}})
       <= MaxReviews
  /\ LET call == [name |-> "createReview", data |-> data, userId |-> userId]
     IN  IF ~\E v \in venues : v.id = data.venueId
         THEN Finish(p, call.name, AppError("NotFound", "Venue not found"))
         ELSE Continue(p, call, "cr_find", NoLocals)
  /\ UNCHANGED <<reviews, nextReviewId, slots, bookings, nextBookingId, venues,
                 nextSlotId, now, rivalWon>>

\* createReview, second await: the user's review of the venue
CreateReviewFind(p) ==
  /\ pc[p] = "cr_find"
  /\ LET existingReview == {r \in reviews : /\ r.userId = op[p].userId
                                            /\ r.venueId = op[p].data.venueId}
     IN  IF existingReview # {}
         THEN Finish(p, op[p].name,
                     AppError("Conflict", "You have already reviewed this venue"))
         ELSE Continue(p, op[p], "cr_booking", NoLocals)
  /\ UNCHANGED <<reviews, nextReviewId, slots, bookings, nextBookingId, venues,
                 nextSlotId, now, rivalWon>>

\* a faulty variant of CreateReviewBooking that asks for any booking of the
\* user at the venue, whatever its status; C26 tells it from the code's
CreateReviewBookingAnyStatus(p) ==
  /\ pc[p] = "cr_booking"
  /\ LET found == {b \in bookings :
                     /\ b.userId = op[p].userId
                     /\ \E s \in slots : s.id = b.slotId
                                         /\ s.venueId = op[p].data.venueId}
     IN  IF found = {}
         THEN Finish(p, op[p].name,
                     AppError("Forbidden", "You must have a completed booking"))
         ELSE \E completedBooking \in found :
                Continue(p, op[p], "cr_create",
                         [completedBooking |-> completedBooking])
  /\ UNCHANGED <<reviews, nextReviewId, slots, bookings, nextBookingId, venues,
                 nextSlotId, now, rivalWon>>

\* createReview, third await: a COMPLETED booking of the user at the venue
CreateReviewBooking(p) ==
  /\ pc[p] = "cr_booking"
  /\ LET found == completedBookings(bookings, slots, op[p].userId,
                                    op[p].data.venueId)
     IN  IF found = {}
         THEN Finish(p, op[p].name,
                     AppError("Forbidden", "You must have a completed booking"))
         ELSE \E completedBooking \in found :
                Continue(p, op[p], "cr_create",
                         [completedBooking |-> completedBooking])
  /\ UNCHANGED <<reviews, nextReviewId, slots, bookings, nextBookingId, venues,
                 nextSlotId, now, rivalWon>>

\* createReview, last await: the insert
CreateReviewCreate(p) ==
  /\ pc[p] = "cr_create"
  /\ LET w == reviewCreate(reviews, NewReviewId(nextReviewId), op[p].userId,
                           op[p].data)
     IN  /\ reviews' = w.reviews
         /\ nextReviewId' = IF w.res = Ok THEN nextReviewId + 1 ELSE nextReviewId
         /\ Finish(p, op[p].name, w.res)
  /\ UNCHANGED <<slots, bookings, nextBookingId, venues, nextSlotId, now,
                 rivalWon>>

\* a faulty variant of UpdateReviewRead without the check of the requester;
\* C28 tells it from the code's
UpdateReviewReadNoAuthorCheck(p, id, data, userId) ==
  /\ Free(p)
  /\ LET call == [name |-> "updateReview", id |-> id, data |-> data,
                  userId |-> userId]
     IN  IF ~HasReview(reviews, id)
         THEN Finish(p, call.name, AppError("NotFound", "Review not found"))
         ELSE Continue(p, call, "ur_write", NoLocals)
  /\ UNCHANGED <<reviews, nextReviewId, slots, bookings, nextBookingId, venues,
                 nextSlotId, now, rivalWon>>

\* PUT /api/reviews/:id: authenticate, then updateReview's first await, the
\* review, and the check of the requester
UpdateReviewRead(p, id, data, userId) ==
  /\ Free(p)
  /\ LET call == [name |-> "updateReview", id |-> id, data |-> data,
                  userId |-> userId]
         isAdmin == RoleOf(userId) = "ADMIN"
     IN  IF ~HasReview(reviews, id)
         THEN Finish(p, call.name, AppError("NotFound", "Review not found"))
         ELSE IF ~isAdmin /\ ReviewOf(reviews, id).userId # userId
         THEN Finish(p, call.name,
                     AppError("Forbidden", "You can only update your own reviews"))
         ELSE Continue(p, call, "ur_write", NoLocals)
  /\ UNCHANGED <<reviews, nextReviewId, slots, bookings, nextBookingId, venues,
                 nextSlotId, now, rivalWon>>

\* updateReview, second await: the update
UpdateReviewWrite(p) ==
  /\ pc[p] = "ur_write"
  /\ LET w == reviewUpdate(reviews, op[p].id, op[p].data)
     IN  /\ reviews' = w.reviews
         /\ Finish(p, op[p].name, w.res)
  /\ UNCHANGED <<nextReviewId, slots, bookings, nextBookingId, venues,
                 nextSlotId, now, rivalWon>>

\* DELETE /api/reviews/:id: authenticate, then deleteReview's first await, the
\* review, and the check of the requester
DeleteReviewRead(p, id, userId) ==
  /\ Free(p)
  /\ LET call == [name |-> "deleteReview", id |-> id, userId |-> userId]
         isAdmin == RoleOf(userId) = "ADMIN"
     IN  IF ~HasReview(reviews, id)
         THEN Finish(p, call.name, AppError("NotFound", "Review not found"))
         ELSE IF ~isAdmin /\ ReviewOf(reviews, id).userId # userId
         THEN Finish(p, call.name,
                     AppError("Forbidden", "You can only delete your own reviews"))
         ELSE Continue(p, call, "dr_write", NoLocals)
  /\ UNCHANGED <<reviews, nextReviewId, slots, bookings, nextBookingId, venues,
                 nextSlotId, now, rivalWon>>

\* deleteReview, second await: the delete
DeleteReviewWrite(p) ==
  /\ pc[p] = "dr_write"
  /\ LET w == reviewDelete(reviews, op[p].id)
     IN  /\ reviews' = w.reviews
         /\ Finish(p, op[p].name, w.res)
  /\ UNCHANGED <<nextReviewId, slots, bookings, nextBookingId, venues,
                 nextSlotId, now, rivalWon>>

\* bodies of POST /api/reviews that pass CreateReviewSchema, on venue v1 and
\* on a venue that does not exist
CreateReviewBodies ==
  {[venueId |-> v, rating |-> 4, comment |-> Null] : v \in {"v1", "v9"}}

\* bodies of PUT /api/reviews/:id that pass UpdateReviewSchema
UpdateReviewBodies ==
  {[rating |-> Some(1), comment |-> Null],
   [rating |-> Null, comment |-> Some("not so good after all")]}

\* The reviews of venue v1: user u1 books slot s1, the admin marks the booking
\* COMPLETED or CANCELLED, users u1 and u2 write reviews, and users and admin
\* update and delete them, in every interleaving.
ReviewNext ==
  \/ \E p \in Reqs : CreateBookingCheck(p, "s1", "u1")
  \/ \E p \in Reqs : CreateBookingFind(p)
  \/ \E p \in Reqs : CreateBookingTx(p)
  \/ \E p \in Reqs, status \in {"COMPLETED", "CANCELLED"} :
       UpdateBookingStatusRead(p, 1, status, "admin")
  \/ \E p \in Reqs : UpdateBookingStatusWrite(p)
  \/ \E p \in Reqs, data \in CreateReviewBodies, userId \in {"u1", "u2"} :
       CreateReviewVenue(p, data, userId)
  \/ \E p \in Reqs : CreateReviewFind(p)
  \/ \E p \in Reqs : CreateReviewBooking(p)
  \/ \E p \in Reqs : CreateReviewCreate(p)
  \/ \E p \in Reqs, id \in ReviewIds, data \in UpdateReviewBodies,
        userId \in UserRows :
       UpdateReviewRead(p, id, data, userId)
  \/ \E p \in Reqs : UpdateReviewWrite(p)
  \/ \E p \in Reqs, id \in ReviewIds, userId \in UserRows :
       DeleteReviewRead(p, id, userId)
  \/ \E p \in Reqs : DeleteReviewWrite(p)

ReviewSpec == Init /\ [][ReviewNext]_vars

----------------------------------------------------------------------------
(* Claims *)

\* C1: of the createBooking calls racing on one slot only one succeeds: a call
\* that passed its availability check before a rival's commit, and commits
\* while the rival's booking still holds the slot, fails with Conflict.
C1_RacingCreateOneSucceeds ==
  [][\A p \in Reqs :
       (/\ CreateBookingTx(p)
        /\ rivalWon[p]
        /\ \E b \in bookings :
             b.slotId = op[p].slotId /\ b.status \in {"PENDING", "CONFIRMED"})
       => response'.kind = "Conflict"]_vars

\* C2: in every reachable state each slot has at most one booking whose
\* status is PENDING or CONFIRMED.
C2_AtMostOneActiveBookingPerSlot ==
  \A s \in slots :
    Cardinality({b \in bookings :
                   b.slotId = s.id /\ b.status \in {"PENDING", "CONFIRMED"}}) <= 1

\* C3: createBooking's transaction takes the store in one step either to the
\* slot BOOKED with the caller's booking row inserted, or, when one of its two
\* writes fails, nowhere: neither write persists.
C3_CreateBookingAllOrNothing ==
  [][\A p \in Reqs :
       CreateBookingTx(p) =>
         LET slotId == op[p].slotId
             added == bookings' \ bookings
         IN  \/ /\ response'.kind = "OK"
                /\ \E s \in slots' : s.id = slotId /\ s.status = "BOOKED"
                /\ Cardinality(added) = 1
                /\ \A b \in added : b.slotId = slotId /\ b.userId = op[p].userId
             \/ /\ response'.kind # "OK"
                /\ slots' = slots
                /\ bookings' = bookings]_vars

\* C3, its case: the insert of a createBooking on s1 has just failed, and s1
\* is AVAILABLE with no booking as before the transaction
C3_Witness ==
  /\ response.name = "createBooking"
  /\ response.kind = "Internal"
  /\ \E s \in slots : s.id = "s1" /\ s.status = "AVAILABLE"
  /\ bookings = {}

\* C4: a successful createBooking changes the slot from AVAILABLE to BOOKED
\* and adds exactly one booking: the caller's, on that slot, PENDING, payment
\* PENDING, no refundAmount, priced from the slot's duration and its venue's
\* pricePerHour; no other slot and no other booking changes.
C4_CreateBookingEffect ==
  [][\A p \in Reqs :
       (CreateBookingTx(p) /\ response'.kind = "OK") =>
         LET before == SlotOf(slots, op[p].slotId)
             after == SlotOf(slots', op[p].slotId)
             price == ((before.endTime.min - before.startTime.min)
                         * VenueById(before.venueId).pricePerHour) \div 60
         IN  /\ before.status = "AVAILABLE"
             /\ after = [before EXCEPT !.status = "BOOKED"]
             /\ slots' \ {after} = slots \ {before}
             /\ bookings \subseteq bookings'
             /\ \E b \in bookings' \ bookings :
                  /\ bookings' \ bookings = {b}
                  /\ b.userId = op[p].userId
                  /\ b.slotId = op[p].slotId
                  /\ b.status = "PENDING"
                  /\ b.paymentStatus = "PENDING"
                  /\ b.refundAmount = Null
                  /\ b.totalPrice = price]_vars

C7_PastSlotUnavailable ==
  [][\A p \in Reqs, slotId \in AnySlotId :
       LET past == \E s \in slots :
                     s.id = slotId /\ s.date * (24 * 60) + s.startTime.min < now
       IN  /\ (CheckAvailability(p, slotId) /\ past)
                => response'.value[1].available = FALSE
           /\ \A userId \in TokenHolders :
                (CreateBookingCheck(p, slotId, userId) /\ past)
                  => response'.kind = "Conflict"]_vars

\* C8: a successful cancelBooking sets in one step the booking's slot to
\* AVAILABLE and the booking to CANCELLED with refundAmount the computed
\* refund; paymentStatus becomes REFUNDED when the refund is above 0 and
\* stays as it was when the refund is 0.
C8_CancelBookingEffect ==
  [][\A p \in Reqs :
       (CancelBookingTx(p) /\ response'.kind = "OK") =>
         LET id == loc[p].booking.id
             refund == loc[p].refundInfo.amount
             before == BookingOf(bookings, id)
             after == BookingOf(bookings', id)
         IN  /\ SlotOf(slots', before.slotId).status = "AVAILABLE"
             /\ after.status = "CANCELLED"
             /\ after.refundAmount = Some(refund)
             /\ after.paymentStatus = IF refund > 0
                                      THEN "REFUNDED"
                                      ELSE before.paymentStatus]_vars

\* C9: cancelBooking fails with NotFound when the booking is missing,
\* otherwise with Forbidden when the requester is neither its owner nor an
\* admin, otherwise with BadRequest when it is CANCELLED or COMPLETED; a
\* failed cancelBooking changes no booking and no slot.
C9_CancelBookingErrors ==
  [][\A p \in Reqs :
       /\ \A id \in BookingIds, userId \in UserRows :
            CancelBookingRead(p, id, userId) =>
              LET found == \E b \in bookings : b.id = id
                  booking == CHOOSE b \in bookings : b.id = id
                  allowed == userId = "admin" \/ booking.userId = userId
                  closed == booking.status \in {"CANCELLED", "COMPLETED"}
              IN  /\ ~found => response'.kind = "NotFound"
                  /\ (found /\ ~allowed) => response'.kind = "Forbidden"
                  /\ (found /\ allowed /\ closed) => response'.kind = "BadRequest"
                  /\ slots' = slots
                  /\ bookings' = bookings
       /\ (CancelBookingTx(p) /\ response'.kind # "OK")
            => (slots' = slots /\ bookings' = bookings)]_vars

\* C9, its case: a cancelBooking by a user who does not own the booking has
\* just been refused as Forbidden although the booking is CANCELLED
C9_Witness ==
  /\ response.name = "cancelBooking"
  /\ response.kind = "Forbidden"
  /\ bookings # {}
  /\ \A b \in bookings : b.status = "CANCELLED"

\* C10: the refund cancelBooking computes is 100% of totalPrice when the slot
\* starts more than 24 hours after the call, 50% from 12 to 24 hours, 0% under
\* 12 hours, rounded to cents.
C10_RefundAtCancellation ==
  [][\A p \in Reqs, id \in BookingIds, userId \in UserRows :
       (CancelBookingRead(p, id, userId) /\ pc'[p] = "cn_tx") =>
         LET booking == BookingOf(bookings, id)
             slot == SlotOf(slots, booking.slotId)
             minutes == (slot.date * (24 * 60) + slot.startTime.min) - now
             policy == IF minutes > 24 * 60 THEN booking.totalPrice
                       ELSE IF minutes >= 12 * 60
                       THEN (booking.totalPrice + 1) \div 2
                       ELSE 0
         IN  loc'[p].refundInfo.amount = policy]_vars

\* calculateRefund itself, handed a valid Date, follows the policy of C10 on
\* the minutes between the clock and the slot start (under RefundSpec)
RefundFollowsPolicy ==
  response.name = "calculateRefund" =>
    LET call == response.value[1]
        minutes == call.slotStartTime.t - call.at
        share == IF minutes > 24 * 60 THEN 100
                 ELSE IF minutes >= 12 * 60 THEN 50
                 ELSE 0
    IN  /\ call.refund.percentage = share
        /\ call.refund.eligible = (share > 0)
        /\ call.refund.amount =
             IF share = 100 THEN call.totalPrice
             ELSE IF share = 50 THEN (call.totalPrice + 1) \div 2
             ELSE 0

\* C11: booking the AVAILABLE 10:00-12:00 slot s1 of the venue priced 40.00 per
\* hour gives totalPrice 80.00 and the slot BOOKED; cancelling that booking 30
\* hours before the slot starts gives refundAmount 80.00, the slot AVAILABLE
\* and the booking CANCELLED.
C11_BookThenCancelThirtyHoursBefore ==
  [][\A p \in Reqs :
       /\ (CreateBookingTx(p) /\ response'.kind = "OK" /\ op[p].slotId = "s1")
            => /\ \E s \in slots' : s.id = "s1" /\ s.status = "BOOKED"
               /\ \A b \in bookings' \ bookings : b.totalPrice = 8000
       /\ (/\ CancelBookingTx(p)
           /\ response'.kind = "OK"
           /\ \E s \in slots :
                /\ s.id = loc[p].booking.slotId
                /\ s.date * (24 * 60) + s.startTime.min - now = 30 * 60)
            => LET after == BookingOf(bookings', loc[p].booking.id)
               IN  /\ after.status = "CANCELLED"
                   /\ after.refundAmount = Some(after.totalPrice)
                   /\ after.totalPrice = 8000
                   /\ \E s \in slots' :
                        s.id = after.slotId /\ s.status = "AVAILABLE"]_vars

C13_StatusTransitions ==
  [][\A b \in bookings, c \in bookings' :
       (c.id = b.id /\ c.status # b.status) =>
         <<b.status, c.status>> \in
           {<<"PENDING", "CONFIRMED">>, <<"PENDING", "CANCELLED">>,
            <<"CONFIRMED", "CANCELLED">>, <<"CONFIRMED", "COMPLETED">>}]_vars

\* C14: for each venue and date no two stored slots have overlapping
\* half-open intervals [startTime, endTime), after any sequence and any
\* interleaving of createSlot, updateSlot and createBulkSlots.
C14_NoOverlappingSlots ==
  \A a \in slots, b \in slots :
    (a.id # b.id /\ a.venueId = b.venueId /\ a.date = b.date) =>
      ~(/\ SplitMinutes(a.startTime) < SplitMinutes(b.endTime)
        /\ SplitMinutes(b.startTime) < SplitMinutes(a.endTime))

\* C15: updateSlot and deleteSlot are atomic with respect to a concurrent
\* createBooking on the same slot: no step deletes a slot, or changes its
\* date or times, while the slot holds a PENDING or CONFIRMED booking.
C15_BookedSlotKeepsItsTime ==
  [][\A s \in slots :
       ActiveBookings(bookings, s.id) # {} =>
         \E t \in slots' :
           /\ t.id = s.id
           /\ t.date = s.date
           /\ t.startTime = s.startTime
           /\ t.endTime = s.endTime]_vars

\* C16: the price of a booking is (end minutes - start minutes) / 60 times the
\* venue's price per hour, rounded half-up to two decimals (here: to a whole
\* number of cents); so 2 hours at 40.00 give 80.00 and 1.5 hours at 30.00
\* give 45.00.
C16_PriceRoundedHalfUp ==
  response.name = "calculatePrice" =>
    LET call == response.value[1]
        minutes == SplitMinutes(call.endTime) - SplitMinutes(call.startTime)
        exact == minutes * call.pricePerHour
    IN  call.price = (2 * exact + MinutesPerHour) \div (2 * MinutesPerHour)

\* C17: a booking's totalPrice is fixed when createBooking inserts it: no
\* later step (of cancelBooking, updateBookingStatus, updateSlot with a new
\* time, updateVenue with a new pricePerHour) changes the totalPrice of a
\* booking that exists.
C17_TotalPriceFixed ==
  [][\A b \in bookings, c \in bookings' :
       c.id = b.id => c.totalPrice = b.totalPrice]_vars

\* a cancelled booking keeps the price of 10:00-12:00 at 40.00 per hour after
\* its slot was moved to one hour and the venue's price was raised
C17_Witness ==
  /\ \E b \in bookings :
       /\ b.status = "CANCELLED"
       /\ b.refundAmount # Null
       /\ b.totalPrice = 8000
       /\ HasSlot(slots, b.slotId)
       /\ SlotOf(slots, b.slotId).startTime = HHMM(13 * 60)
       /\ SlotOf(slots, b.slotId).endTime = HHMM(14 * 60)
  /\ VenueById("v1").pricePerHour = 5000

\* C18: refundAmount is written only by a successful cancelBooking: createBooking
\* inserts a booking without it, and the only step that changes it on a
\* booking that exists is the transaction of a cancelBooking of that booking
\* which answers with success; so it is absent on every booking that was never
\* cancelled through cancelBooking, whatever updateBookingStatus did to it.
C18_RefundAmountOnlyByCancel ==
  [][/\ \A c \in bookings' :
          (~\E b \in bookings : b.id = c.id) => c.refundAmount = Null
     /\ \A b \in bookings, c \in bookings' :
          (c.id = b.id /\ c.refundAmount # b.refundAmount) =>
            \E p \in Reqs :
              /\ CancelBookingTx(p)
              /\ op[p].id = b.id
              /\ response'.name = "cancelBooking"
              /\ response'.kind = "OK"]_vars

\* one booking cancelled by cancelBooking carries a refundAmount, another set
\* CANCELLED by updateBookingStatus carries none
C18_Witness ==
  \E a \in bookings, b \in bookings :
    /\ a.status = "CANCELLED" /\ a.refundAmount # Null
    /\ b.status = "CANCELLED" /\ b.refundAmount = Null

\* C19: the slot overlap test is symmetric: for two intervals A and B of one
\* venue and date, testing A as the candidate against B as the stored slot
\* answers as testing B as the candidate against A as the stored slot.
C19_OverlapSymmetric ==
  response.name = "hasSlotOverlap" =>
    \A b \in slots :
      LET call == response.value[1]
          a == createSlotRow("s1", [venueId |-> call.venueId,
                                    startTime |-> call.startTime,
                                    endTime |-> call.endTime, status |-> Null])
          startOfB == b.date * MinutesPerDay + SplitMinutes(b.startTime)
          endOfB == b.date * MinutesPerDay + SplitMinutes(b.endTime)
      IN  call.hasOverlap = hasSlotOverlap({a}, b.venueId, startOfB, endOfB, Null)

\* C20: createBulkSlots makes one candidate per date and template, skips each
\* candidate that overlaps a slot the venue already had, fails on none of
\* them, and returns as `created` the number of candidates less the colliding
\* ones, none of which is among the returned slots (3 templates over 2 dates
\* with 1 collision give 5).  Stated for a call during which no other request
\* inserted a slot.
C20_BulkSkipsColliding ==
  [][\A p \in Reqs :
       (/\ CreateBulkSlotsReturn(p)
        /\ slots \ loc[p].atStart \subseteq
             {loc[p].results[k][1] :
                k \in {j \in DOMAIN loc[p].results : loc[p].results[j] # Null}}) =>
         LET candidates == loc[p].slotsToCreate
             Collides(c) ==
               \E s \in loc[p].atStart :
                 /\ s.venueId = c.venueId
                 /\ s.date = c.date
                 /\ SplitMinutes(c.startTime) < SplitMinutes(s.endTime)
                 /\ SplitMinutes(s.startTime) < SplitMinutes(c.endTime)
             colliding == {k \in DOMAIN candidates : Collides(candidates[k])}
             returned == response'.value[1]
         IN  /\ Len(candidates)
                  = Len(op[p].data.dates) * Len(op[p].data.timeSlots)
             /\ response'.kind = "OK"
             /\ returned.created = Len(candidates) - Cardinality(colliding)
             /\ Len(returned.slots) = returned.created
             /\ \A k \in colliding, i \in DOMAIN returned.slots :
                  ~(/\ returned.slots[i].date = candidates[k].date
                    /\ returned.slots[i].startTime = candidates[k].startTime
                    /\ returned.slots[i].endTime = candidates[k].endTime)]_vars

\* C21: an updateSlot whose patch holds startTime or endTime, called on a slot
\* that has a PENDING or CONFIRMED booking, fails with BadRequest and leaves
\* the slot as it was.
C21_BookedSlotTimeChangeRefused ==
  [][\A p \in Reqs, data \in TimePatches :
       (/\ UpdateSlotRead(p, "s1", data, "admin")
        /\ \E b \in bookings :
             b.slotId = "s1" /\ b.status \in {"PENDING", "CONFIRMED"})
       => /\ response'.name = "updateSlot"
          /\ response'.kind = "BadRequest"
          /\ pc'[p] = "idle"
          /\ slots' = slots]_vars

\* C21, its case: an updateSlot has just been refused with BadRequest while
\* the slot's booking is CONFIRMED
C21_Witness ==
  /\ response.name = "updateSlot"
  /\ response.kind = "BadRequest"
  /\ \E b \in bookings : b.slotId = "s1" /\ b.status = "CONFIRMED"
  /\ \E s \in slots : s.id = "s1" /\ s.startTime = HHMM(10 * 60)

\* C22: a deleteSlot called on a slot that has a PENDING or CONFIRMED booking
\* fails with BadRequest and deletes neither the slot nor any booking.
C22_BookedSlotDeleteRefused ==
  [][\A p \in Reqs :
       (/\ DeleteSlotRead(p, "s1", "admin")
        /\ \E b \in bookings :
             b.slotId = "s1" /\ b.status \in {"PENDING", "CONFIRMED"})
       => /\ response'.name = "deleteSlot"
          /\ response'.kind = "BadRequest"
          /\ pc'[p] = "idle"
          /\ slots' = slots
          /\ bookings' = bookings]_vars

\* C22, its case: a deleteSlot has just been refused with BadRequest while the
\* slot's booking is CONFIRMED
C22_Witness ==
  /\ response.name = "deleteSlot"
  /\ response.kind = "BadRequest"
  /\ \E b \in bookings : b.slotId = "s1" /\ b.status = "CONFIRMED"
  /\ \E s \in slots : s.id = "s1"

\* C23: no slot referenced by a booking that is PENDING, CONFIRMED or
\* COMPLETED is ever deleted, so no COMPLETED booking is removed together
\* with its slot.
C23_ReferencedSlotNeverDeleted ==
  [][\A s \in slots :
       (\E b \in bookings :
          b.slotId = s.id /\ b.status \in {"PENDING", "CONFIRMED", "COMPLETED"})
       => \E t \in slots' : t.id = s.id]_vars

\* C24: the status of an existing slot changes only from AVAILABLE to BOOKED
\* (createBooking), from BOOKED to AVAILABLE (cancelBooking) or to BLOCKED
\* (the admin); no step makes any other change of status.
C24_SlotStatusTransitions ==
  [][\A s \in slots, t \in slots' :
       (t.id = s.id /\ t.status # s.status)
       => \/ s.status = "AVAILABLE" /\ t.status = "BOOKED"
          \/ s.status = "BOOKED" /\ t.status = "AVAILABLE"
          \/ t.status = "BLOCKED"]_vars

\* C25: a createSlot call fails with NotFound when the venue does not exist,
\* with Forbidden when the requester is not an admin (either of the two when
\* both hold) and with Conflict when its interval overlaps, as half-open
\* intervals, a stored slot of the venue on the date; a failing call creates
\* no slot, and the slot a succeeding call stores has the status supplied, or
\* AVAILABLE when none was.
C25_CreateSlotOutcomes ==
  [][\A p \in Reqs :
       /\ \A data \in CreateBodies, userId \in {"admin", "u1"} :
            CreateSlotCheck(p, data, userId) =>
              LET venueMissing == ~\E v \in venues : v.id = data.venueId
                  notAdmin == RoleOf(userId) # "ADMIN"
                  overlaps ==
                    \E s \in slots :
                      /\ s.venueId = data.venueId
                      /\ s.date = DayOf(data.startTime)
                      /\ data.startTime < s.date * MinutesPerDay + SplitMinutes(s.endTime)
                      /\ s.date * MinutesPerDay + SplitMinutes(s.startTime) < data.endTime
                  failed == pc'[p] = "idle"
              IN  /\ (venueMissing \/ notAdmin) =>
                       /\ failed
                       /\ \/ venueMissing /\ response'.kind = "NotFound"
                          \/ notAdmin /\ response'.kind = "Forbidden"
                  /\ (~venueMissing /\ ~notAdmin /\ overlaps) =>
                       failed /\ response'.kind = "Conflict"
                  /\ slots' = slots
       /\ CreateSlotWrite(p) =>
            \E s \in slots' \ slots :
              /\ slots' = slots \cup {s}
              /\ s.status = IF op[p].data.status # Null
                            THEN op[p].data.status[1] ELSE "AVAILABLE"]_vars

\* C29: updateBookingStatus on a stored booking sets its status to the given
\* one whatever it was, sets paymentStatus to PAID when the given status is
\* CONFIRMED and leaves it alone otherwise, and changes neither totalPrice nor
\* refundAmount nor any other booking nor any slot; on a booking that is not
\* stored it answers NotFound and changes nothing.
C29_StatusOverwrite ==
  [][\A p \in Reqs :
       /\ \A id \in BookingIds, status \in BookingStatus :
            (UpdateBookingStatusRead(p, id, status, "admin") /\ ~HasBooking(bookings, id))
            => /\ response'.name = "updateBookingStatus"
               /\ response'.kind = "NotFound"
               /\ bookings' = bookings /\ slots' = slots
       /\ UpdateBookingStatusWrite(p) =>
            /\ slots' = slots
            /\ IF HasBooking(bookings, op[p].id)
               THEN LET old == BookingOf(bookings, op[p].id)
                        new == BookingOf(bookings', op[p].id)
                    IN  /\ response'.kind = "OK"
                        /\ bookings' \ {new} = bookings \ {old}
                        /\ new.status = op[p].status
                        /\ new.paymentStatus = IF op[p].status = "CONFIRMED"
                                               THEN "PAID" ELSE old.paymentStatus
                        /\ new.totalPrice = old.totalPrice
                        /\ new.refundAmount = old.refundAmount
                        /\ new.slotId = old.slotId /\ new.userId = old.userId
               ELSE response'.kind = "NotFound" /\ bookings' = bookings]_vars

C29_Witness ==
  /\ response.name = "updateBookingStatus" /\ response.kind = "OK"
  /\ \E b \in bookings : b.status = "PENDING" /\ b.paymentStatus = "PAID"
  /\ \E s \in slots : s.id = "s1" /\ s.status = "BOOKED"

\* C30: the overlap test answers as the test of half-open intervals: a
\* candidate is reported as overlapping exactly when it shares more than a
\* boundary with a stored slot of the venue on the date, that is when its
\* start is before the slot's end and the slot's start is before its end.
C30_HalfOpenOverlap ==
  response.name = "hasSlotOverlap" =>
    LET call == response.value[1]
        shares ==
          \E s \in slots :
            /\ s.venueId = call.venueId
            /\ s.date = DayOf(call.startTime)
            /\ call.startTime < s.date * MinutesPerDay + SplitMinutes(s.endTime)
            /\ s.date * MinutesPerDay + SplitMinutes(s.startTime) < call.endTime
    IN  call.hasOverlap = shares

C31_UpdateSlotRechecksOverlap ==
  [][\A p \in Reqs :
       UpdateSlotOverlap(p) =>
         LET id == op[p].id
             row == SlotOf(updateSlotWrite({loc[p].slot}, id, op[p].data).slots, id)
             others == {s \in slots : /\ s.id # id
                                      /\ s.venueId = row.venueId
                                      /\ s.date = row.date}
             overlapping ==
               {s \in others :
                  /\ SplitMinutes(row.startTime) < SplitMinutes(s.endTime)
                  /\ SplitMinutes(s.startTime) < SplitMinutes(row.endTime)}
         IN  /\ overlapping # {} =>
                  /\ pc'[p] = "idle"
                  /\ response'.kind = "Conflict"
                  /\ slots' = slots
             /\ others = {} => pc'[p] = "us_write"]_vars

\* C32: in every reachable state a slot referenced by a PENDING or CONFIRMED
\* booking has status BOOKED.
C32_ActiveBookingImpliesBooked ==
  \A b \in bookings :
    b.status \in ActiveStatuses =>
      \A s \in slots : s.id = b.slotId => s.status = "BOOKED"

\* C33: in every reachable state a slot with status BOOKED is referenced by a
\* PENDING or CONFIRMED booking.
C33_BookedImpliesActiveBooking ==
  \A s \in slots :
    s.status = "BOOKED" =>
      \E b \in bookings : b.slotId = s.id /\ b.status \in ActiveStatuses

\* C34: the transaction of a cancelBooking leaves every BLOCKED slot BLOCKED:
\* cancelling a booking whose slot the admin has blocked does not make the
\* slot AVAILABLE.
C34_CancelKeepsBlocked ==
  [][\A p \in Reqs :
       CancelBookingTx(p) =>
         \A s \in slots :
           s.status = "BLOCKED" =>
             \E t \in slots' : t.id = s.id /\ t.status = "BLOCKED"]_vars

\* C35: of the cancelBooking calls racing on one booking at most one succeeds:
\* the transaction of a call that read the booking while it was active, and
\* commits after the booking has left the active states, does not succeed and
\* changes neither a slot nor a booking.
C35_RacingCancelOneSucceeds ==
  [][\A p \in Reqs :
       (/\ CancelBookingTx(p)
        /\ \E b \in bookings : /\ b.id = loc[p].booking.id
                               /\ b.status \notin ActiveStatuses)
       => /\ response'.kind # "OK"
          /\ slots' = slots
          /\ bookings' = bookings]_vars

\* C36: the slots one createBulkSlots call returns as created never overlap
\* each other: no two of them are on the same venue and date with half-open
\* intervals that share more than a boundary.
C36_BatchSlotsDisjoint ==
  (response.name = "createBulkSlots" /\ response.kind = "OK") =>
    LET created == response.value[1].slots
    IN  \A i \in DOMAIN created, j \in DOMAIN created :
          (i # j /\ created[i].venueId = created[j].venueId
                 /\ created[i].date = created[j].date) =>
            ~(/\ SplitMinutes(created[i].startTime) < SplitMinutes(created[j].endTime)
              /\ SplitMinutes(created[j].startTime) < SplitMinutes(created[i].endTime))

\* C37: a cancelBooking that succeeds on the only active booking of a slot
\* leaves the slot released (AVAILABLE, no active booking); a released slot
\* stays released until a createBooking commits on it; and while it is
\* released and its start is ahead of the clock, checkAvailability answers
\* available and a createBooking on it by any user passes the availability
\* check and commits with success, the slot BOOKED and the user's booking
\* PENDING.  Stated for runs without admin operations.
C37_ReleasedSlotBookable ==
  [][LET Released(S, B, slotId) ==
           /\ \E s \in S : s.id = slotId /\ s.status = "AVAILABLE"
           /\ ActiveBookings(B, slotId) = {}
         Ahead(slotId) ==
           \A s \in slots : s.id = slotId => SlotStartInstant(s) > now
     IN  \A p \in Reqs :
           /\ (/\ CancelBookingTx(p)
               /\ response'.kind = "OK"
               /\ \A b \in ActiveBookings(bookings, loc[p].booking.slotId) :
                    b.id = loc[p].booking.id)
              => Released(slots', bookings', loc[p].booking.slotId)
           /\ \A slotId \in AnySlotId :
                Released(slots, bookings, slotId) =>
                  /\ (~\E q \in Reqs : pc[q] = "cb_tx" /\ op[q].slotId = slotId)
                       => Released(slots', bookings', slotId)
                  /\ (CheckAvailability(p, slotId) /\ Ahead(slotId))
                       => response'.value[1].available = TRUE
                  /\ \A userId \in {"u1", "u2"} :
                       (CreateBookingCheck(p, slotId, userId) /\ Ahead(slotId))
                         => pc'[p] = "cb_find"
                  /\ (CreateBookingTx(p) /\ op[p].slotId = slotId)
                       => /\ response'.kind = "OK"
                          /\ \E s \in slots' : s.id = slotId /\ s.status = "BOOKED"
                          /\ \E b \in bookings' \ bookings :
                               /\ b.userId = op[p].userId
                               /\ b.slotId = slotId
                               /\ b.status = "PENDING"]_vars

\* C37, its case: user u2 has just booked slot s1, which user u1 had booked
\* and then released by cancelBooking
C37_Witness ==
  /\ response.name = "createBooking" /\ response.kind = "OK"
  /\ \E a \in bookings, b \in bookings :
       /\ a.slotId = "s1" /\ a.userId = "u1"
       /\ a.status = "CANCELLED" /\ a.refundAmount # Null
       /\ b.slotId = "s1" /\ b.userId = "u2" /\ b.status = "PENDING"
  /\ \E s \in slots : s.id = "s1" /\ s.status = "BOOKED"

\* C38: every stored booking has a totalPrice above zero (the venue's
\* pricePerHour being positive), and the slot of a booking just inserted has
\* its stored endTime later than its stored startTime.
C38_TotalPricePositive ==
  [][\A b \in bookings' \ bookings :
       /\ b.totalPrice > 0
       /\ \A s \in slots' :
            s.id = b.slotId => SplitMinutes(s.startTime) < SplitMinutes(s.endTime)]_vars

C40_ConfirmedIsPaid ==
  \A b \in bookings : b.status = "CONFIRMED" => b.paymentStatus = "PAID"

\* C40, its case: a booking that cancelBooking had cancelled unpaid has just
\* been set CONFIRMED by the admin
C40_Witness ==
  /\ response.name = "updateBookingStatus" /\ response.kind = "OK"
  /\ \E b \in bookings :
       /\ b.status = "CONFIRMED" /\ b.paymentStatus = "PAID"
       /\ b.refundAmount = Some(0)

====
